---- MODULE Spec2Model ----
(***************************************************************************)
(* slog-dedup: the four deduplicating slog.Handler middlewares             *)
(* (OverwriteHandler, IgnoreHandler, IncrementHandler, AppendHandler).     *)
(*                                                                         *)
(* Strings are sequences of byte values, so that Go's byte-order string    *)
(* comparison and fmt.Sprintf("%s#%02d") are computed, not assumed.        *)
(* A slog.Attr is a record [key, kind, val, group, list]:                  *)
(*   kind "any"   a non-group value; val = 0 is the nil any value, so      *)
(*                [key = "", kind = "any", val = 0] is slog.Attr{}         *)
(*   kind "group" a slog.GroupValue, members in group                      *)
(*   kind "slice" a []any built by the AppendHandler, elements in list     *)
(*   kind "map"   a map[string]any built by buildGroupMap, entries in group*)
(* slog.LogValuer values are not part of the inputs, so Value.Resolve()    *)
(* returns the value it is given.                                          *)
(***************************************************************************)
EXTENDS Integers, Sequences, FiniteSets, TLC

VARIABLES
    handlers,   \* the handlers created so far: [kind, goa, keyCompare, resolveKey]
    nodes,      \* the groupOrAttrs nodes allocated so far: [group, attrs, next]
    inH,        \* the receiver of the latest Handle call (0: none yet)
    inRec,      \* the record passed to the latest Handle call
    sink,       \* the next handler: [calls, rec, returned] during the latest Handle call
    ret,        \* what the latest Handle call returned
    call        \* the latest call of a function of the package made directly:
                \* its name, its arguments and what it returned

vars == <<handlers, nodes, inH, inRec, sink, ret, call>>

----------------------------------------------------------------------------
(* Keys *)

EmptyKey == <<>>
\* slog.TimeKey, slog.LevelKey, slog.MessageKey, slog.SourceKey
TimeKey == <<116, 105, 109, 101>>
LevelKey == <<108, 101, 118, 101, 108>>
MessageKey == <<109, 115, 103>>
SourceKey == <<115, 111, 117, 114, 99, 101>>

Min(a, b) == IF a < b THEN a ELSE b

\* Go's a < b on strings: byte-wise lexicographic order.
StrLess(a, b) ==
    \E i \in 1..(Min(Len(a), Len(b)) + 1) :
        /\ \A j \in 1..(i - 1) : a[j] = b[j]
        /\ \/ i > Len(a) /\ i <= Len(b)
           \/ i <= Len(a) /\ i <= Len(b) /\ a[i] < b[i]

\* strings.ToLower on the bytes of an ASCII string
ToLower(s) == [i \in 1..Len(s) |-> IF s[i] >= 65 /\ s[i] <= 90 THEN s[i] + 32 ELSE s[i]]

CaseSensitiveCmp(a, b) ==
    IF a = b THEN 0 ELSE IF StrLess(b, a) THEN 1 ELSE -1

CaseInsensitiveCmp(a, b) ==
    LET la == ToLower(a)
        lb == ToLower(b)
    IN  IF la = lb THEN 0 ELSE IF StrLess(lb, la) THEN 1 ELSE -1

\* the comparison by bytes, whatever function the handler was built with
KeyCompare_ByBytes(cmp, a, b) == CaseSensitiveCmp(a, b)

\* h.keyCompare(a, b)
KeyCompare(cmp, a, b) ==
    IF cmp = "CaseInsensitiveCmp" THEN CaseInsensitiveCmp(a, b) ELSE CaseSensitiveCmp(a, b)

RECURSIVE Itoa(_)
\* the decimal digits of n >= 0
Itoa(n) == IF n < 10 THEN <<48 + n>> ELSE Itoa(n \div 10) \o <<48 + (n % 10)>>

\* fmt's %02d for n >= 0: at least two digits, padded with zeros
Fmt02d(n) == IF n < 10 THEN <<48>> \o Itoa(n) ELSE Itoa(n)

IncrementKeyName(key, index) ==
    IF index = 0 THEN key ELSE key \o <<35>> \o Fmt02d(index)

\* DoesBuiltinKeyConflict comparing only the start of the key (strings.HasPrefix)
DoesBuiltinKeyConflict_ByPrefix(key) ==
    \E b \in {TimeKey, LevelKey, MessageKey, SourceKey} :
        Len(key) >= Len(b) /\ SubSeq(key, 1, Len(b)) = b

\* DoesBuiltinKeyConflict without the comparison with slog.TimeKey
DoesBuiltinKeyConflict_WithoutTime(key) ==
    key = LevelKey \/ key = MessageKey \/ key = SourceKey

\* DoesBuiltinKeyConflict(key)
DoesBuiltinKeyConflict(key) ==
    key = TimeKey \/ key = LevelKey \/ key = MessageKey \/ key = SourceKey

\* The ResolveKey functions the handlers call with (groups, key, index).
IncrementIfBuiltinKeyConflict(groups, key, index) ==
    IF Len(groups) = 0 /\ DoesBuiltinKeyConflict(key)
    THEN [key |-> IncrementKeyName(key, index + 1), keep |-> TRUE]
    ELSE [key |-> IncrementKeyName(key, index), keep |-> TRUE]

DropIfBuiltinKeyConflict(groups, key, index) ==
    IF Len(groups) = 0 /\ DoesBuiltinKeyConflict(key)
    THEN [key |-> EmptyKey, keep |-> FALSE]
    ELSE [key |-> IncrementKeyName(key, index), keep |-> TRUE]

KeepIfBuiltinKeyConflict(groups, key, index) ==
    [key |-> IncrementKeyName(key, index), keep |-> TRUE]

FooKey == <<102, 111, 111>>
HelloKey == <<104, 101, 108, 108, 111>>

\* The ResolveKey of TestIncrementHandler_DoesKeyConflict_IncrementKeyName:
\* foo becomes foo@(index+1), hello is dropped, at every depth
DoesKeyConflict_IncrementKeyName(groups, key, index) ==
    IF key = FooKey THEN [key |-> key \o <<64>> \o Itoa(index + 1), keep |-> TRUE]
    ELSE IF key = HelloKey THEN [key |-> EmptyKey, keep |-> FALSE]
    ELSE [key |-> key, keep |-> TRUE]

\* the keys of the sinks' tables
MessageFieldKey == <<109, 101, 115, 115, 97, 103, 101>>
SourceLocKey == <<115, 111, 117, 114, 99, 101, 76, 111, 99>>
TimestampKey == <<116, 105, 109, 101, 115, 116, 97, 109, 112>>
TimestampRenamedKey == <<116, 105, 109, 101, 115, 116, 97, 109, 112, 82, 101, 110, 97, 109, 101, 100>>
SeverityKey == <<115, 101, 118, 101, 114, 105, 116, 121>>
SourceLocationKey ==
    <<108, 111, 103, 103, 105, 110, 103, 46, 103, 111, 111, 103, 108, 101, 97, 112, 105, 115, 46, 99, 111, 109, 47, 115, 111, 117, 114, 99, 101, 76, 111, 99, 97, 116, 105, 111, 110>>

\* var sinkGraylog, var sinkStackdriver: the builtins in the order of the
\* slice; the replacers are a Go map, listed here in the order of the source
sinkGraylog ==
    [builtins |-> <<TimeKey, LevelKey, MessageFieldKey, SourceLocKey>>,
     replacers |-> << [old |-> TimestampKey, key |-> TimestampRenamedKey],
                      [old |-> MessageKey, key |-> MessageFieldKey],
                      [old |-> SourceKey, key |-> SourceLocKey] >>]
sinkStackdriver ==
    [builtins |-> <<TimeKey, SeverityKey, MessageFieldKey, SourceLocationKey>>,
     replacers |-> << [old |-> LevelKey, key |-> SeverityKey],
                      [old |-> MessageKey, key |-> MessageFieldKey],
                      [old |-> SourceKey, key |-> SourceLocationKey] >>]

RECURSIVE replaceLoop(_, _)
\* for oldKey, replacement := range dest.replacers, in the order replacers
\* lists them: key is compared and assigned in every iteration
replaceLoop(replacers, key) ==
    IF replacers = <<>> THEN key
    ELSE replaceLoop(Tail(replacers),
                     IF key = Head(replacers).old THEN Head(replacers).key ELSE key)

\* resolveKeys that leaves a builtin name of the sink as it is
resolveKeys_KeepsBuiltins(dest, groups, key, index) ==
    IF Len(groups) > 0 THEN [key |-> key, keep |-> TRUE]
    ELSE [key |-> replaceLoop(dest.replacers, key), keep |-> TRUE]

\* the closure resolveKeys(dest) returns, called with (groups, key, index)
resolveKeys(dest, groups, key, index) ==
    IF Len(groups) > 0 THEN [key |-> key, keep |-> TRUE]
    ELSE LET k == replaceLoop(dest.replacers, key)
         IN  IF \E i \in 1..Len(dest.builtins) : k = dest.builtins[i]
             THEN [key |-> IncrementKeyName(k, index + 1), keep |-> TRUE]
             ELSE [key |-> k, keep |-> TRUE]

RECURSIVE ResolveKey(_, _, _, _)

RECURSIVE JoinResolveKeyLoop_GoesOn(_, _, _, _, _)
\* the loop without the break
JoinResolveKeyLoop_GoesOn(fs, groups, key, index, ok) ==
    IF fs = <<>> THEN [key |-> key, keep |-> ok]
    ELSE LET r == ResolveKey(Head(fs), groups, key, index)
         IN  JoinResolveKeyLoop_GoesOn(Tail(fs), groups, r.key, index, r.keep)

RECURSIVE JoinResolveKeyLoop(_, _, _, _, _)
\* for _, f := range resolveKeyFunctions: key and ok after the loop
JoinResolveKeyLoop(fs, groups, key, index, ok) ==
    IF fs = <<>> THEN [key |-> key, keep |-> ok]
    ELSE LET r == ResolveKey(Head(fs), groups, key, index)
         IN  IF ~r.keep THEN r
             ELSE JoinResolveKeyLoop(Tail(fs), groups, r.key, index, r.keep)

\* the closure JoinResolveKey(fs...) returns for one function or more, called
\* with (groups, originalKey, index); var ok bool starts as false
JoinResolveKey(fs, groups, originalKey, index) ==
    LET r == JoinResolveKeyLoop(fs, groups, originalKey, index, FALSE)
    IN  IF r.key # originalKey THEN r
        ELSE [key |-> IncrementKeyName(r.key, index), keep |-> r.keep]

\* JoinResolveKey(fs...) is nil
JoinResolveKeyIsNil(fs) == Len(fs) = 0

\* the functions joined under each name a handler is built with
JoinedFunctions(resolver) ==
    CASE resolver = "JoinResolveKey(ResolveKeyGraylog)" -> <<"ResolveKeyGraylog">>
      [] resolver = "JoinResolveKey(ResolveKeyStackdriver)" -> <<"ResolveKeyStackdriver">>
      [] OTHER -> <<"ResolveKeyStackdriver", "ResolveKeyGraylog">>

\* h.resolveKey(groups, key, index) for the resolver the handler was built with
ResolveKey(resolver, groups, key, index) ==
    CASE resolver = "DropIfBuiltinKeyConflict" -> DropIfBuiltinKeyConflict(groups, key, index)
      [] resolver = "ResolveKeyGraylog" -> resolveKeys(sinkGraylog, groups, key, index)
      [] resolver = "ResolveKeyStackdriver" -> resolveKeys(sinkStackdriver, groups, key, index)
      [] resolver \in {"JoinResolveKey(ResolveKeyGraylog)",
                       "JoinResolveKey(ResolveKeyStackdriver)",
                       "JoinResolveKey(ResolveKeyStackdriver, ResolveKeyGraylog)"} ->
            JoinResolveKey(JoinedFunctions(resolver), groups, key, index)
      [] resolver = "DoesKeyConflict_IncrementKeyName" ->
            DoesKeyConflict_IncrementKeyName(groups, key, index)
      [] resolver = "KeepIfBuiltinKeyConflict" -> KeepIfBuiltinKeyConflict(groups, key, index)
      [] OTHER -> IncrementIfBuiltinKeyConflict(groups, key, index)

----------------------------------------------------------------------------
(* Attributes *)

Attr(k, v) == [key |-> k, kind |-> "any", val |-> v, group |-> <<>>, list |-> <<>>]
Group(k, as) == [key |-> k, kind |-> "group", val |-> 0, group |-> as, list |-> <<>>]
AnySlice(k, xs) == [key |-> k, kind |-> "slice", val |-> 0, group |-> <<>>, list |-> xs]
AnyMap(k, es) == [key |-> k, kind |-> "map", val |-> 0, group |-> es, list |-> <<>>]

\* a.Equal(slog.Attr{})
IsEmptyAttr(a) == a.key = EmptyKey /\ a.kind = "any" /\ a.val = 0

----------------------------------------------------------------------------
(* The ordered map b.Tree[string, any]: a sequence of [k, v] in ascending  *)
(* order of k under the tree's comparison function. A value v is           *)
(* [tag, attr, tree, items]: a slog.Attr, a subtree, or an appended slice  *)
(* whose items are values of the first two kinds.                          *)

AttrVal(a) == [tag |-> "attr", attr |-> a, tree |-> <<>>, items |-> <<>>]
TreeVal(t) == [tag |-> "tree", attr |-> Attr(EmptyKey, 0), tree |-> t, items |-> <<>>]
AppendedVal(xs) == [tag |-> "appended", attr |-> Attr(EmptyKey, 0), tree |-> <<>>, items |-> xs]

\* the position of k in t, or 0
TreeFind(cmp, t, k) ==
    IF \E i \in 1..Len(t) : KeyCompare(cmp, t[i].k, k) = 0
    THEN CHOOSE i \in 1..Len(t) : KeyCompare(cmp, t[i].k, k) = 0
    ELSE 0

\* Tree.Seek(k): the position of the first item whose key is not below k (Len(t)+1: none)
TreeSeek(cmp, t, k) ==
    IF \E i \in 1..Len(t) : KeyCompare(cmp, t[i].k, k) >= 0
    THEN CHOOSE i \in 1..Len(t) :
            /\ KeyCompare(cmp, t[i].k, k) >= 0
            /\ \A j \in 1..(i - 1) : KeyCompare(cmp, t[j].k, k) < 0
    ELSE Len(t) + 1

\* insertion of a new key at its place in the order
TreeInsert(cmp, t, k, v) ==
    LET p == TreeSeek(cmp, t, k)
    IN  SubSeq(t, 1, p - 1) \o <<[k |-> k, v |-> v]>> \o SubSeq(t, p, Len(t))

\* TreeSet without the lookup of an existing key
TreeSet_AlwaysInserts(cmp, t, k, v) == TreeInsert(cmp, t, k, v)

\* TreeSet that leaves the value of an existing item as it is
TreeSet_KeepsOldValue(cmp, t, k, v) ==
    IF TreeFind(cmp, t, k) = 0 THEN TreeInsert(cmp, t, k, v) ELSE t

\* TreeSet that replaces a value only by one of its kind: an attribute by an
\* attribute, a subtree by a subtree
TreeSet_SameKindOnly(cmp, t, k, v) ==
    LET i == TreeFind(cmp, t, k)
    IN  IF i = 0 THEN TreeInsert(cmp, t, k, v)
        ELSE IF t[i].v.tag = v.tag THEN [t EXCEPT ![i].v = v] ELSE t

\* Tree.Set(k, v): the value of an existing item is replaced, its key is kept
TreeSet(cmp, t, k, v) ==
    LET i == TreeFind(cmp, t, k)
    IN  IF i = 0 THEN TreeInsert(cmp, t, k, v) ELSE [t EXCEPT ![i].v = v]

----------------------------------------------------------------------------
(* OverwriteHandler *)

RECURSIVE OverwriteHandler_resolveValues(_, _, _, _)
\* The loop over attrs: one attribute is resolved into uniq, then the rest.
OverwriteHandler_resolveValues(h, uniq, attrs, groups) ==
    IF attrs = <<>> THEN uniq
    ELSE
    LET a == Head(attrs)
        rest == Tail(attrs)
        r == ResolveKey(h.resolveKey, groups, a.key, 0)
        uniqGroup == OverwriteHandler_resolveValues(h, <<>>, a.group, Append(groups, r.key))
    IN  IF IsEmptyAttr(a) THEN OverwriteHandler_resolveValues(h, uniq, rest, groups)
        ELSE IF ~r.keep THEN OverwriteHandler_resolveValues(h, uniq, rest, groups)
        ELSE IF a.kind # "group"
        THEN OverwriteHandler_resolveValues(h,
                TreeSet(h.keyCompare, uniq, r.key, AttrVal([a EXCEPT !.key = r.key])), rest, groups)
        ELSE IF r.key = EmptyKey
        THEN OverwriteHandler_resolveValues(h,
                OverwriteHandler_resolveValues(h, uniq, a.group, groups), rest, groups)
        ELSE IF Len(uniqGroup) > 0
        THEN OverwriteHandler_resolveValues(h,
                TreeSet(h.keyCompare, uniq, r.key, TreeVal(uniqGroup)), rest, groups)
        ELSE OverwriteHandler_resolveValues(h, uniq, rest, groups)

RECURSIVE OverwriteHandler_createAttrTree_SetsEmpty(_, _, _, _)
\* createAttrTree that puts the subtree of a namespace into the map also when
\* the subtree is empty
OverwriteHandler_createAttrTree_SetsEmpty(h, uniq, goas, groups) ==
    IF Len(goas) = 0 THEN uniq
    ELSE
    LET r == ResolveKey(h.resolveKey, groups, goas[1].group, 0)
        uniqGroup == OverwriteHandler_createAttrTree_SetsEmpty(h, <<>>, Tail(goas),
                                                               Append(groups, r.key))
    IN  IF goas[1].group # EmptyKey /\ r.keep
        THEN TreeSet(h.keyCompare, uniq, r.key, TreeVal(uniqGroup))
        ELSE OverwriteHandler_createAttrTree_SetsEmpty(h,
                OverwriteHandler_resolveValues(h, uniq, goas[1].attrs, groups), Tail(goas), groups)

RECURSIVE OverwriteHandler_createAttrTree(_, _, _, _)
OverwriteHandler_createAttrTree(h, uniq, goas, groups) ==
    IF Len(goas) = 0 THEN uniq
    ELSE
    LET r == ResolveKey(h.resolveKey, groups, goas[1].group, 0)
        uniqGroup == OverwriteHandler_createAttrTree(h, <<>>, Tail(goas), Append(groups, r.key))
    IN  IF goas[1].group # EmptyKey /\ r.keep
        THEN IF Len(uniqGroup) > 0
             THEN TreeSet(h.keyCompare, uniq, r.key, TreeVal(uniqGroup))
             ELSE uniq
        ELSE OverwriteHandler_createAttrTree(h,
                OverwriteHandler_resolveValues(h, uniq, goas[1].attrs, groups), Tail(goas), groups)

----------------------------------------------------------------------------
(* IgnoreHandler *)

\* Put whose upd takes the new value also when the key exists
IgnoreHandler_Put_Replaces(cmp, uniq, key, v) ==
    LET i == TreeFind(cmp, uniq, key)
    IN  IF i = 0 THEN TreeInsert(cmp, uniq, key, v) ELSE [uniq EXCEPT ![i].v = v]

\* uniq.Put(key, upd) where upd keeps the old value when the key exists
IgnoreHandler_Put(cmp, uniq, key, v) ==
    IF TreeFind(cmp, uniq, key) # 0 THEN uniq ELSE TreeInsert(cmp, uniq, key, v)

RECURSIVE IgnoreHandler_resolveValues_KeepsDropped(_, _, _, _)
\* resolveValues without the test of the resolver's second result
IgnoreHandler_resolveValues_KeepsDropped(h, uniq, attrs, groups) ==
    IF attrs = <<>> THEN uniq
    ELSE
    LET a == Head(attrs)
        rest == Tail(attrs)
        r == ResolveKey(h.resolveKey, groups, a.key, 0)
        uniqGroup == IgnoreHandler_resolveValues_KeepsDropped(h, <<>>, a.group,
                                                              Append(groups, r.key))
    IN  IF IsEmptyAttr(a) THEN IgnoreHandler_resolveValues_KeepsDropped(h, uniq, rest, groups)
        ELSE IF a.kind # "group"
        THEN IgnoreHandler_resolveValues_KeepsDropped(h,
                IgnoreHandler_Put(h.keyCompare, uniq, r.key, AttrVal([a EXCEPT !.key = r.key])), rest, groups)
        ELSE IF r.key = EmptyKey
        THEN IgnoreHandler_resolveValues_KeepsDropped(h,
                IgnoreHandler_resolveValues_KeepsDropped(h, uniq, a.group, groups), rest, groups)
        ELSE IF Len(uniqGroup) > 0
        THEN IgnoreHandler_resolveValues_KeepsDropped(h,
                IgnoreHandler_Put(h.keyCompare, uniq, r.key, TreeVal(uniqGroup)), rest, groups)
        ELSE IgnoreHandler_resolveValues_KeepsDropped(h, uniq, rest, groups)

RECURSIVE IgnoreHandler_resolveValues(_, _, _, _)
IgnoreHandler_resolveValues(h, uniq, attrs, groups) ==
    IF attrs = <<>> THEN uniq
    ELSE
    LET a == Head(attrs)
        rest == Tail(attrs)
        r == ResolveKey(h.resolveKey, groups, a.key, 0)
        uniqGroup == IgnoreHandler_resolveValues(h, <<>>, a.group, Append(groups, r.key))
    IN  IF IsEmptyAttr(a) THEN IgnoreHandler_resolveValues(h, uniq, rest, groups)
        ELSE IF ~r.keep THEN IgnoreHandler_resolveValues(h, uniq, rest, groups)
        ELSE IF a.kind # "group"
        THEN IgnoreHandler_resolveValues(h,
                IgnoreHandler_Put(h.keyCompare, uniq, r.key, AttrVal([a EXCEPT !.key = r.key])), rest, groups)
        ELSE IF r.key = EmptyKey
        THEN IgnoreHandler_resolveValues(h,
                IgnoreHandler_resolveValues(h, uniq, a.group, groups), rest, groups)
        ELSE IF Len(uniqGroup) > 0
        THEN IgnoreHandler_resolveValues(h,
                IgnoreHandler_Put(h.keyCompare, uniq, r.key, TreeVal(uniqGroup)), rest, groups)
        ELSE IgnoreHandler_resolveValues(h, uniq, rest, groups)

RECURSIVE IgnoreHandler_createAttrTree(_, _, _, _)
IgnoreHandler_createAttrTree(h, uniq, goas, groups) ==
    IF Len(goas) = 0 THEN uniq
    ELSE
    LET r == ResolveKey(h.resolveKey, groups, goas[1].group, 0)
        uniqGroup == IgnoreHandler_createAttrTree(h, <<>>, Tail(goas), Append(groups, r.key))
    IN  IF goas[1].group # EmptyKey /\ r.keep
        THEN IF Len(uniqGroup) > 0
             THEN IgnoreHandler_Put(h.keyCompare, uniq, r.key, TreeVal(uniqGroup))
             ELSE uniq
        ELSE IgnoreHandler_createAttrTree(h,
                IgnoreHandler_resolveValues(h, uniq, goas[1].attrs, groups), Tail(goas), groups)

----------------------------------------------------------------------------
(* AppendHandler *)

\* Put whose upd puts v in front of the values already appended
AppendHandler_Put_NewestFirst(cmp, uniq, key, v) ==
    LET i == TreeFind(cmp, uniq, key)
    IN  IF i = 0 THEN TreeInsert(cmp, uniq, key, v)
        ELSE IF uniq[i].v.tag = "appended"
        THEN [uniq EXCEPT ![i].v = AppendedVal(<<v>> \o uniq[i].v.items)]
        ELSE [uniq EXCEPT ![i].v = AppendedVal(<<v, uniq[i].v>>)]

\* Put whose upd makes the slice {oldValue, v} also when oldValue is a slice
AppendHandler_Put_NestsSlices(cmp, uniq, key, v) ==
    LET i == TreeFind(cmp, uniq, key)
    IN  IF i = 0 THEN TreeInsert(cmp, uniq, key, v)
        ELSE [uniq EXCEPT ![i].v = AppendedVal(<<uniq[i].v, v>>)]

\* uniq.Put(key, upd) where upd stores v under a new key, appends v to an
\* appended slice, or makes the appended slice {oldValue, v}
AppendHandler_Put(cmp, uniq, key, v) ==
    LET i == TreeFind(cmp, uniq, key)
    IN  IF i = 0 THEN TreeInsert(cmp, uniq, key, v)
        ELSE IF uniq[i].v.tag = "appended"
        THEN [uniq EXCEPT ![i].v = AppendedVal(Append(uniq[i].v.items, v))]
        ELSE [uniq EXCEPT ![i].v = AppendedVal(<<uniq[i].v, v>>)]

RECURSIVE AppendHandler_resolveValues(_, _, _, _)
AppendHandler_resolveValues(h, uniq, attrs, groups) ==
    IF attrs = <<>> THEN uniq
    ELSE
    LET a == Head(attrs)
        rest == Tail(attrs)
        r == ResolveKey(h.resolveKey, groups, a.key, 0)
        uniqGroup == AppendHandler_resolveValues(h, <<>>, a.group, Append(groups, r.key))
    IN  IF IsEmptyAttr(a) THEN AppendHandler_resolveValues(h, uniq, rest, groups)
        ELSE IF ~r.keep THEN AppendHandler_resolveValues(h, uniq, rest, groups)
        ELSE IF a.kind # "group"
        THEN AppendHandler_resolveValues(h,
                AppendHandler_Put(h.keyCompare, uniq, r.key, AttrVal([a EXCEPT !.key = r.key])), rest, groups)
        ELSE IF r.key = EmptyKey
        THEN AppendHandler_resolveValues(h,
                AppendHandler_resolveValues(h, uniq, a.group, groups), rest, groups)
        ELSE IF Len(uniqGroup) > 0
        THEN AppendHandler_resolveValues(h,
                AppendHandler_Put(h.keyCompare, uniq, r.key, TreeVal(uniqGroup)), rest, groups)
        ELSE AppendHandler_resolveValues(h, uniq, rest, groups)

RECURSIVE AppendHandler_createAttrTree(_, _, _, _)
AppendHandler_createAttrTree(h, uniq, goas, groups) ==
    IF Len(goas) = 0 THEN uniq
    ELSE
    LET r == ResolveKey(h.resolveKey, groups, goas[1].group, 0)
        uniqGroup == AppendHandler_createAttrTree(h, <<>>, Tail(goas), Append(groups, r.key))
    IN  IF goas[1].group # EmptyKey /\ r.keep
        THEN IF Len(uniqGroup) > 0
             THEN AppendHandler_Put(h.keyCompare, uniq, r.key, TreeVal(uniqGroup))
             ELSE uniq
        ELSE AppendHandler_createAttrTree(h,
                AppendHandler_resolveValues(h, uniq, goas[1].attrs, groups), Tail(goas), groups)

----------------------------------------------------------------------------
(* IncrementHandler *)

RECURSIVE resolveIncrementKeyLoop_StopsAtOther(_, _, _, _, _, _, _)
\* the loop that returns at the first key that is not the candidate
resolveIncrementKeyLoop_StopsAtOther(resolver, uniq, pos, groups, key, index, res) ==
    IF pos > Len(uniq) \/ uniq[pos].k # res.key
    THEN res
    ELSE resolveIncrementKeyLoop_StopsAtOther(resolver, uniq, pos + 1, groups, key, index + 1,
                                              ResolveKey(resolver, groups, key, index + 1))

RECURSIVE resolveIncrementKeyLoop(_, _, _, _, _, _, _)
\* The for loop of resolveIncrementKeyClosure: pos is the enumerator's position,
\* res the latest (newKey, keep). The comparisons are Go's == and > on strings.
resolveIncrementKeyLoop(resolver, uniq, pos, groups, key, index, res) ==
    IF pos > Len(uniq) \/ StrLess(res.key, uniq[pos].k)
    THEN res
    ELSE IF uniq[pos].k = res.key
    THEN resolveIncrementKeyLoop(resolver, uniq, pos + 1, groups, key, index + 1,
                                 ResolveKey(resolver, groups, key, index + 1))
    ELSE resolveIncrementKeyLoop(resolver, uniq, pos + 1, groups, key, index, res)

\* resolveIncrementKey that stops at the first key the enumerator returns
resolveIncrementKey_OneStep(h, uniq, groups, key) ==
    LET res == ResolveKey(h.resolveKey, groups, key, 0)
        pos == TreeSeek(h.keyCompare, uniq, res.key)
    IN  IF pos <= Len(uniq) /\ uniq[pos].k = res.key
        THEN ResolveKey(h.resolveKey, groups, key, 1)
        ELSE res

\* h.resolveIncrementKey(uniq, groups, key)
resolveIncrementKey(h, uniq, groups, key) ==
    LET res == ResolveKey(h.resolveKey, groups, key, 0)
    IN  resolveIncrementKeyLoop(h.resolveKey, uniq, TreeSeek(h.keyCompare, uniq, res.key),
                                groups, key, 0, res)

RECURSIVE IncrementHandler_resolveValues_SetsEmpty(_, _, _, _)
\* resolveValues that puts the subtree of a group into the map also when the
\* subtree is empty
IncrementHandler_resolveValues_SetsEmpty(h, uniq, attrs, groups) ==
    IF attrs = <<>> THEN uniq
    ELSE
    LET a == Head(attrs)
        rest == Tail(attrs)
        r == resolveIncrementKey(h, uniq, groups, a.key)
        uniqGroup == IncrementHandler_resolveValues_SetsEmpty(h, <<>>, a.group,
                                                              Append(groups, r.key))
    IN  IF IsEmptyAttr(a) \/ ~r.keep
        THEN IncrementHandler_resolveValues_SetsEmpty(h, uniq, rest, groups)
        ELSE IF a.kind # "group"
        THEN IncrementHandler_resolveValues_SetsEmpty(h,
                TreeSet(h.keyCompare, uniq, r.key, AttrVal([a EXCEPT !.key = r.key])), rest, groups)
        ELSE IF r.key = EmptyKey
        THEN IncrementHandler_resolveValues_SetsEmpty(h,
                IncrementHandler_resolveValues_SetsEmpty(h, uniq, a.group, groups), rest, groups)
        ELSE IncrementHandler_resolveValues_SetsEmpty(h,
                TreeSet(h.keyCompare, uniq, r.key, TreeVal(uniqGroup)), rest, groups)

RECURSIVE IncrementHandler_resolveValues(_, _, _, _)
IncrementHandler_resolveValues(h, uniq, attrs, groups) ==
    IF attrs = <<>> THEN uniq
    ELSE
    LET a == Head(attrs)
        rest == Tail(attrs)
        r == resolveIncrementKey(h, uniq, groups, a.key)
        uniqGroup == IncrementHandler_resolveValues(h, <<>>, a.group, Append(groups, r.key))
    IN  IF IsEmptyAttr(a) THEN IncrementHandler_resolveValues(h, uniq, rest, groups)
        ELSE IF ~r.keep THEN IncrementHandler_resolveValues(h, uniq, rest, groups)
        ELSE IF a.kind # "group"
        THEN IncrementHandler_resolveValues(h,
                TreeSet(h.keyCompare, uniq, r.key, AttrVal([a EXCEPT !.key = r.key])), rest, groups)
        ELSE IF r.key = EmptyKey
        THEN IncrementHandler_resolveValues(h,
                IncrementHandler_resolveValues(h, uniq, a.group, groups), rest, groups)
        ELSE IF Len(uniqGroup) > 0
        THEN IncrementHandler_resolveValues(h,
                TreeSet(h.keyCompare, uniq, r.key, TreeVal(uniqGroup)), rest, groups)
        ELSE IncrementHandler_resolveValues(h, uniq, rest, groups)

RECURSIVE IncrementHandler_createAttrTree(_, _, _, _)
IncrementHandler_createAttrTree(h, uniq, goas, groups) ==
    IF Len(goas) = 0 THEN uniq
    ELSE
    LET r == resolveIncrementKey(h, uniq, groups, goas[1].group)
        uniqGroup == IncrementHandler_createAttrTree(h, <<>>, Tail(goas), Append(groups, r.key))
    IN  IF goas[1].group # EmptyKey /\ r.keep
        THEN IF Len(uniqGroup) > 0
             THEN TreeSet(h.keyCompare, uniq, r.key, TreeVal(uniqGroup))
             ELSE uniq
        ELSE IncrementHandler_createAttrTree(h,
                IncrementHandler_resolveValues(h, uniq, goas[1].attrs, groups), Tail(goas), groups)

----------------------------------------------------------------------------
(* IncrementHandler of package dedup: the keys are resolved by depth, and  *)
(* createAttrTree stores the resolved name of a namespace in its node      *)

RECURSIVE seekIncrementKeyLoop(_, _, _, _)
\* The for loop of seekIncrementKeyClosure: pos is the enumerator's position.
seekIncrementKeyLoop(uniq, pos, key, index) ==
    LET newKey == IncrementKeyName(key, index)
    IN  IF pos > Len(uniq) \/ StrLess(newKey, uniq[pos].k)
        THEN newKey
        ELSE IF uniq[pos].k = newKey
        THEN seekIncrementKeyLoop(uniq, pos + 1, key, index + 1)
        ELSE seekIncrementKeyLoop(uniq, pos + 1, key, index)

\* h.getIncrementKey(uniq, depth, key)
getIncrementKey(h, uniq, depth, key) ==
    LET index == IF depth = 0 /\ DoesBuiltinKeyConflict(key) THEN 1 ELSE 0
    IN  seekIncrementKeyLoop(uniq, TreeSeek(h.keyCompare, uniq, IncrementKeyName(key, index)),
                             key, index)

RECURSIVE dedup_IncrementHandler_resolveValues(_, _, _, _)
dedup_IncrementHandler_resolveValues(h, uniq, attrs, depth) ==
    IF attrs = <<>> THEN uniq
    ELSE
    LET a == Head(attrs)
        rest == Tail(attrs)
        key == getIncrementKey(h, uniq, depth, a.key)
        uniqGroup == dedup_IncrementHandler_resolveValues(h, <<>>, a.group, depth + 1)
    IN  IF IsEmptyAttr(a) THEN dedup_IncrementHandler_resolveValues(h, uniq, rest, depth)
        ELSE IF a.kind # "group"
        THEN dedup_IncrementHandler_resolveValues(h,
                TreeSet(h.keyCompare, uniq, key, AttrVal([a EXCEPT !.key = key])), rest, depth)
        ELSE IF key = EmptyKey
        THEN dedup_IncrementHandler_resolveValues(h,
                dedup_IncrementHandler_resolveValues(h, uniq, a.group, depth), rest, depth)
        ELSE IF Len(uniqGroup) > 0
        THEN dedup_IncrementHandler_resolveValues(h,
                TreeSet(h.keyCompare, uniq, key, TreeVal(uniqGroup)), rest, depth)
        ELSE dedup_IncrementHandler_resolveValues(h, uniq, rest, depth)

RECURSIVE dedup_IncrementHandler_createAttrTree(_, _, _, _)
\* The result is the map, uniq, and the group field of every node of goas
\* after the call, group: goas[0].group = h.getIncrementKey(...) writes the
\* node that the slice points to.
dedup_IncrementHandler_createAttrTree(h, uniq, goas, depth) ==
    IF Len(goas) = 0 THEN [uniq |-> uniq, group |-> <<>>]
    ELSE IF goas[1].group # EmptyKey
    THEN LET key == getIncrementKey(h, uniq, depth, goas[1].group)
             sub == dedup_IncrementHandler_createAttrTree(h, <<>>, Tail(goas), depth + 1)
         IN  [uniq |-> IF Len(sub.uniq) > 0
                       THEN TreeSet(h.keyCompare, uniq, key, TreeVal(sub.uniq))
                       ELSE uniq,
              group |-> <<key>> \o sub.group]
    ELSE LET rest == dedup_IncrementHandler_createAttrTree(h,
                        dedup_IncrementHandler_resolveValues(h, uniq, goas[1].attrs, depth),
                        Tail(goas), depth)
         IN  [uniq |-> rest.uniq, group |-> <<goas[1].group>> \o rest.group]

----------------------------------------------------------------------------
(* From the map back to attributes *)

\* buildGroupMap that takes every value as it is, a group too
buildGroupMap_KeepsGroups(attrs) == attrs

RECURSIVE buildGroupMap(_)
\* The map[string]any of a group's attributes, its entries listed in the
\* order of attrs (their keys are distinct).
buildGroupMap(attrs) ==
    [i \in 1..Len(attrs) |->
        IF attrs[i].kind # "group"
        THEN attrs[i]
        ELSE AnyMap(attrs[i].key, buildGroupMap(attrs[i].group))]

RECURSIVE buildAttrs(_)
\* One attribute per item of uniq, in the order of the tree.
buildAttrs(uniq) ==
    [i \in 1..Len(uniq) |->
        LET k == uniq[i].k
            v == uniq[i].v
        IN  CASE v.tag = "attr" -> v.attr
              [] v.tag = "tree" -> Group(k, buildAttrs(v.tree))
              [] v.tag = "appended" ->
                    AnySlice(k, [j \in 1..Len(v.items) |->
                        IF v.items[j].tag = "attr"
                        THEN [v.items[j].attr EXCEPT !.key = EmptyKey]
                        ELSE AnyMap(EmptyKey, buildGroupMap(buildAttrs(v.items[j].tree)))])
              [] OTHER -> Attr(EmptyKey, 0)]

RECURSIVE buildAttrsPanics(_)
\* buildAttrs reaches one of its panic("unexpected type in attribute map")
buildAttrsPanics(uniq) ==
    \E i \in 1..Len(uniq) :
        LET v == uniq[i].v
        IN  CASE v.tag = "attr" -> FALSE
              [] v.tag = "tree" -> buildAttrsPanics(v.tree)
              [] v.tag = "appended" ->
                    \E j \in 1..Len(v.items) :
                        CASE v.items[j].tag = "attr" -> FALSE
                          [] v.items[j].tag = "tree" -> buildAttrsPanics(v.items[j].tree)
                          [] OTHER -> TRUE
              [] OTHER -> TRUE

\* slog.Record.AddAttrs: a group value without members is not added
RecordAddAttrs(attrs) ==
    SelectSeq(attrs, LAMBDA a : ~(a.kind = "group" /\ Len(a.group) = 0))

----------------------------------------------------------------------------
(* The chain of groupOrAttrs; a pointer is a position in nodes, 0 is nil *)

RECURSIVE Walk(_, _)
\* for ga := g; ga != nil; ga = ga.next : newest node first
Walk(ns, g) == IF g = 0 THEN <<>> ELSE <<ns[g]>> \o Walk(ns, ns[g].next)

Reverse(s) == [i \in 1..Len(s) |-> s[Len(s) + 1 - i]]

RECURSIVE collectGroupOrAttrs_NewestFirst(_)
\* collectGroupOrAttrs that keeps each chain in the order of its walk
collectGroupOrAttrs_NewestFirst(gs) ==
    IF gs = <<>> THEN <<>> ELSE Head(gs) \o collectGroupOrAttrs_NewestFirst(Tail(gs))

RECURSIVE collectGroupOrAttrs(_)
\* gs: the walk of each chain given; the result lists every node, oldest first,
\* the nodes of the first chain before those of the second
collectGroupOrAttrs(gs) ==
    IF gs = <<>> THEN <<>> ELSE Reverse(Head(gs)) \o collectGroupOrAttrs(Tail(gs))

\* the handler's createAttrTree on a fresh map
createAttrTree(h, goas) ==
    CASE h.kind = "Overwrite" -> OverwriteHandler_createAttrTree(h, <<>>, goas, <<>>)
      [] h.kind = "Ignore" -> IgnoreHandler_createAttrTree(h, <<>>, goas, <<>>)
      [] h.kind = "Append" -> AppendHandler_createAttrTree(h, <<>>, goas, <<>>)
      [] OTHER -> IncrementHandler_createAttrTree(h, <<>>, goas, <<>>)

\* the map Handle builds for record r on handler h
HandleTree(ns, h, r) ==
    createAttrTree(h, collectGroupOrAttrs(
        <<Walk(ns, h.goa), <<[group |-> EmptyKey, attrs |-> r.attrs, next |-> 0]>> >>))

\* NewRecord without the PC field
NewRecord_WithoutPC(r, uniq) ==
    [Time |-> r.Time, Level |-> r.Level, Message |-> r.Message, PC |-> 0,
     attrs |-> RecordAddAttrs(buildAttrs(uniq))]

\* the record Handle passes on
NewRecord(r, uniq) ==
    [Time |-> r.Time, Level |-> r.Level, Message |-> r.Message, PC |-> r.PC,
     attrs |-> RecordAddAttrs(buildAttrs(uniq))]

----------------------------------------------------------------------------
(* Bounds and inputs *)

MaxNodes == 2
MaxHandlers == 3

KeyA == <<97>>
KeyA01 == <<97, 35, 48, 49>>

Kinds == {"Overwrite", "Ignore", "Increment", "Append"}
Resolvers == {"IncrementIfBuiltinKeyConflict", "DropIfBuiltinKeyConflict", "KeepIfBuiltinKeyConflict"}
Compares == {"CaseSensitiveCmp", "CaseInsensitiveCmp"}
Errors == {"nil", "err"}

NoCall == [fn |-> "none"]
NoRecord == [Time |-> 0, Level |-> 0, Message |-> "", PC |-> 0, attrs |-> <<>>]

\* the attributes the dedup specifications draw from
Atoms ==
    { Attr(KeyA, 1), Attr(KeyA, 2), Attr(KeyA01, 1), Attr(TimeKey, 1),
      Attr(EmptyKey, 1), Attr(EmptyKey, 0),
      Group(EmptyKey, <<Attr(KeyA, 2), Attr(TimeKey, 2)>>),
      Group(KeyA, <<Attr(KeyA, 1), Attr(KeyA, 2)>>),
      Group(KeyA, <<Attr(EmptyKey, 0)>>),
      Group(TimeKey, <<Attr(TimeKey, 2)>>) }
GroupNames == {KeyA, TimeKey}

\* the attribute lists of the records the dedup specifications handle
DedupRecords ==
    {<<>>, <<Attr(KeyA, 1), Attr(KeyA, 2)>>} \cup {<<a>> : a \in Atoms}

\* the inputs of the specification with the dropping resolver
DropAtoms ==
    { Attr(KeyA, 1), Attr(TimeKey, 1), Group(TimeKey, <<Attr(KeyA, 2)>>),
      Group(KeyA, <<Attr(TimeKey, 2)>>) }
DropRecords == {<<>>, <<Attr(KeyA, 2)>>, <<Attr(TimeKey, 1), Attr(KeyA01, 1)>>}

\* the inputs of the specification with every resolver: keys that a resolver
\* drops or renames, at the root and in groups, and groups without content
ResolveAtoms ==
    { Attr(KeyA, 1), Attr(HelloKey, 1), Attr(FooKey, 1), Attr(TimeKey, 1),
      Group(KeyA, <<Attr(HelloKey, 1)>>),
      Group(KeyA, <<Attr(EmptyKey, 0), Group(FooKey, <<>>)>>),
      Group(HelloKey, <<Attr(KeyA, 2)>>),
      Group(FooKey, <<Attr(HelloKey, 1), Attr(KeyA, 2)>>) }
ResolveNames == {KeyA, HelloKey}
ResolveRecords ==
    { <<>>, <<Attr(KeyA, 2)>>, <<Attr(HelloKey, 1), Attr(FooKey, 2)>>,
      <<Attr(TimeKey, 1), Attr(FooKey, 2)>> }

\* the inputs of the specification of package dedup's IncrementHandler
PkgDedupBatches == {<<Attr(KeyA, 1)>>, <<Attr(TimeKey, 1)>>}
PkgDedupRecords == {<<>>, <<Attr(KeyA, 2)>>}

\* the inputs of the specification of the probe for a free key: keys that sort
\* between two candidates of msg
Msg01 == MessageKey \o <<35, 48, 49>>
Msg01a == Msg01 \o <<97>>
Msg02 == MessageKey \o <<35, 48, 50>>
SeekBatches ==
    { <<Attr(Msg01, 1), Attr(Msg01a, 2), Attr(Msg02, 3)>>,
      <<Attr(Msg01, 1), Attr(Msg01a, 2), Attr(Msg02, 3), Attr(MessageKey, 4), Attr(MessageKey, 5)>>,
      <<Attr(MessageKey, 4), Attr(MessageKey, 5)>>,
      <<Attr(Msg01a, 2)>> }
SeekRecords == {<<>>, <<Attr(MessageKey, 6)>>}

\* the inputs of the specification with both comparisons: two spellings of
\* one key, as attributes, as groups and as namespaces, and a key in upper
\* case that the two comparisons place on different sides of them
KeyUpperA == <<65>>
KeyUpperB == <<66>>
CaseAtoms ==
    { Attr(KeyA, 1), Attr(KeyUpperA, 2), Attr(KeyUpperB, 3),
      Group(KeyUpperA, <<Attr(KeyA, 1), Attr(KeyUpperA, 2)>>),
      Group(KeyA, <<Attr(KeyUpperA, 2)>>) }
CaseNames == {KeyA, KeyUpperA}
CaseRecords ==
    { <<>>, <<Attr(KeyA, 1), Attr(KeyUpperA, 2)>>, <<Attr(KeyUpperA, 2)>>,
      <<Group(KeyUpperA, <<Attr(KeyA, 1)>>)>> }

\* the inputs of the direct calls of the resolvers
MaxJoin == 2
MaxCallIndex == 2
JoinFunctions ==
    {"ResolveKeyGraylog", "ResolveKeyStackdriver", "DoesKeyConflict_IncrementKeyName"}
JoinFunctionLists == UNION {[1..m -> JoinFunctions] : m \in 0..MaxJoin}
CallGroups == {<<>>, <<KeyA>>}
CallKeys ==
    { KeyA, HelloKey, FooKey, TimeKey, LevelKey, MessageKey, SourceKey, TimestampKey,
      TimestampRenamedKey, MessageFieldKey, SourceLocKey, SeverityKey, SourceLocationKey }

\* the inputs of the specification of the Increment handler with the resolvers
\* of the sinks: keys the sink tables rename and the names they rename them to
SinkResolvers ==
    { "ResolveKeyGraylog", "ResolveKeyStackdriver",
      "JoinResolveKey(ResolveKeyStackdriver, ResolveKeyGraylog)" }
SinkAtoms ==
    { Attr(TimestampKey, 1), Attr(TimestampRenamedKey, 2), Attr(MessageKey, 3),
      Attr(MessageFieldKey, 4) }
SinkRecords ==
    { <<>>, <<Attr(TimestampKey, 5)>>, <<Attr(TimestampRenamedKey, 6)>>,
      <<Attr(MessageKey, 7), Attr(MessageFieldKey, 8)>> }

\* the inputs of the direct calls of the probe of the Increment handler: the
\* attributes that fill the map before the call, and the key probed
ProbeKeys == {KeyA, KeyUpperA, KeyUpperB, TimeKey}
ProbeFills == UNION {[1..m -> ProbeKeys] : m \in 0..MaxNodes}
ProbeResolvers == {"IncrementIfBuiltinKeyConflict", "ResolveKeyGraylog"}

\* the inputs of the direct calls of IncrementKeyName: indexes over the range
\* in which the number of digits of the suffix changes
MaxKeyIndex == 100
KeyNameKeys == {EmptyKey, KeyA, MessageKey}

\* the inputs of the specification of the whole handler
SmallBatches == {<<>>, <<Attr(KeyA, 1)>>}
SmallNames == {EmptyKey, KeyA}
SmallRecords ==
    { [Time |-> 1, Level |-> 0, Message |-> "m1", PC |-> 0,
       attrs |-> <<Attr(KeyA, 2), Attr(KeyA, 1)>>],
      [Time |-> 2, Level |-> 4, Message |-> "m2", PC |-> 7,
       attrs |-> <<Attr(TimeKey, 1)>>] }

----------------------------------------------------------------------------
(* Operations *)

InitWith(K, R, C) ==
    /\ \E k \in K, r \in R, c \in C :
          handlers = <<[kind |-> k, goa |-> 0, keyCompare |-> c, resolveKey |-> r]>>
    /\ nodes = <<>>
    /\ inH = 0
    /\ inRec = NoRecord
    /\ sink = [calls |-> 0, rec |-> NoRecord, returned |-> "nil"]
    /\ ret = "none"
    /\ call = NoCall

\* WithGroup without the test for the empty name
WithGroup_AddsEmptyNode(i, name) ==
    /\ Len(handlers) < MaxHandlers
    /\ Len(nodes) < MaxNodes
    /\ nodes' = Append(nodes, [group |-> name, attrs |-> <<>>, next |-> handlers[i].goa])
    /\ handlers' = Append(handlers, [handlers[i] EXCEPT !.goa = Len(nodes) + 1])
    /\ UNCHANGED <<inH, inRec, sink, ret, call>>

\* h.WithGroup(name) on handler i: a copy of h whose chain has the group node
\* (groupOrAttrs.WithGroup returns the chain itself for the empty name)
WithGroup(i, name) ==
    /\ Len(handlers) < MaxHandlers
    /\ IF name = EmptyKey
       THEN /\ handlers' = Append(handlers, handlers[i])
            /\ nodes' = nodes
       ELSE /\ Len(nodes) < MaxNodes
            /\ nodes' = Append(nodes, [group |-> name, attrs |-> <<>>, next |-> handlers[i].goa])
            /\ handlers' = Append(handlers, [handlers[i] EXCEPT !.goa = Len(nodes) + 1])
    /\ UNCHANGED <<inH, inRec, sink, ret, call>>

\* WithAttrs that also makes the receiver point at the new node
WithAttrs_InPlace(i, attrs) ==
    /\ Len(handlers) < MaxHandlers
    /\ Len(nodes) < MaxNodes
    /\ nodes' = Append(nodes, [group |-> EmptyKey, attrs |-> attrs, next |-> handlers[i].goa])
    /\ handlers' = Append([handlers EXCEPT ![i].goa = Len(nodes) + 1],
                          [handlers[i] EXCEPT !.goa = Len(nodes) + 1])
    /\ UNCHANGED <<inH, inRec, sink, ret, call>>

\* h.WithAttrs(attrs) on handler i
WithAttrs(i, attrs) ==
    /\ Len(handlers) < MaxHandlers
    /\ IF Len(attrs) = 0
       THEN /\ handlers' = Append(handlers, handlers[i])
            /\ nodes' = nodes
       ELSE /\ Len(nodes) < MaxNodes
            /\ nodes' = Append(nodes, [group |-> EmptyKey, attrs |-> attrs, next |-> handlers[i].goa])
            /\ handlers' = Append(handlers, [handlers[i] EXCEPT !.goa = Len(nodes) + 1])
    /\ UNCHANGED <<inH, inRec, sink, ret, call>>

\* Handle returning nil whatever the next handler returned
Handle_SwallowsError(i, r, err) ==
    /\ inH' = i
    /\ inRec' = r
    /\ sink' = [calls |-> 1, rec |-> NewRecord(r, HandleTree(nodes, handlers[i], r)), returned |-> err]
    /\ ret' = "nil"
    /\ UNCHANGED <<handlers, nodes, call>>

\* h.Handle(ctx, r) on handler i; err is what the next handler's Handle returns
Handle(i, r, err) ==
    LET uniq == HandleTree(nodes, handlers[i], r)
    IN  /\ inH' = i
        /\ inRec' = r
        /\ IF buildAttrsPanics(uniq)
           THEN /\ sink' = [calls |-> 0, rec |-> NoRecord, returned |-> "nil"]
                /\ ret' = "panic"
           ELSE /\ sink' = [calls |-> 1, rec |-> NewRecord(r, uniq), returned |-> err]
                /\ ret' = err
        /\ UNCHANGED <<handlers, nodes, call>>

RECURSIVE WalkIdx(_, _)
\* the positions of the nodes of a chain, newest first
WalkIdx(ns, g) == IF g = 0 THEN <<>> ELSE <<g>> \o WalkIdx(ns, ns[g].next)

\* collectGroupOrAttrs(h.goa, &groupOrAttrs{attrs: finalAttrs}): pointers to
\* the nodes of the chain, oldest first, then the node of the record
dedup_Goas(ns, h, r) ==
    LET idx == Reverse(WalkIdx(ns, h.goa))
    IN  [j \in 1..Len(idx) |-> ns[idx[j]]]
            \o <<[group |-> EmptyKey, attrs |-> r.attrs, next |-> 0]>>

\* Handle of package dedup's IncrementHandler on handler i: the nodes of the
\* chain are left with the group names createAttrTree stored in them
dedup_Handle(i, r, err) ==
    LET h == handlers[i]
        idx == Reverse(WalkIdx(nodes, h.goa))
        res == dedup_IncrementHandler_createAttrTree(h, <<>>, dedup_Goas(nodes, h, r), 0)
    IN  /\ inH' = i
        /\ inRec' = r
        /\ nodes' = [n \in 1..Len(nodes) |->
                        IF \E j \in 1..Len(idx) : idx[j] = n
                        THEN [nodes[n] EXCEPT
                                !.group = res.group[CHOOSE j \in 1..Len(idx) : idx[j] = n]]
                        ELSE nodes[n]]
        /\ IF buildAttrsPanics(res.uniq)
           THEN /\ sink' = [calls |-> 0, rec |-> NoRecord, returned |-> "nil"]
                /\ ret' = "panic"
           ELSE /\ sink' = [calls |-> 1, rec |-> NewRecord(r, res.uniq), returned |-> err]
                /\ ret' = err
        /\ UNCHANGED <<handlers, call>>

Init == InitWith(Kinds, {"IncrementIfBuiltinKeyConflict", "DropIfBuiltinKeyConflict"}, {"CaseSensitiveCmp"})

Next ==
    \/ \E i \in 1..Len(handlers), name \in SmallNames : WithGroup(i, name)
    \/ \E i \in 1..Len(handlers), attrs \in SmallBatches : WithAttrs(i, attrs)
    \/ \E i \in 1..Len(handlers), r \in SmallRecords, err \in Errors : Handle(i, r, err)

Spec == Init /\ [][Next]_vars

\* Default options, one logger extended step by step, the attributes of Atoms.
InitDedup == InitWith(Kinds, {"IncrementIfBuiltinKeyConflict"}, {"CaseSensitiveCmp"})

DedupHeader == [Time |-> 1, Level |-> 0, Message |-> "m1", PC |-> 0, attrs |-> <<>>]

\* The logger is built first; then one record is handled.
NextDedup ==
    \/ inH = 0 /\ \E name \in GroupNames : WithGroup(Len(handlers), name)
    \/ inH = 0 /\ \E a \in Atoms : WithAttrs(Len(handlers), <<a>>)
    \/ inH = 0 /\ \E attrs \in DedupRecords :
          Handle(Len(handlers), [DedupHeader EXCEPT !.attrs = attrs], "nil")

SpecDedup == InitDedup /\ [][NextDedup]_vars

\* The same with the resolver that drops the builtin keys at the root.
InitDrop == InitWith(Kinds, {"DropIfBuiltinKeyConflict"}, {"CaseSensitiveCmp"})

NextDrop ==
    \/ inH = 0 /\ \E name \in GroupNames : WithGroup(Len(handlers), name)
    \/ inH = 0 /\ \E a \in DropAtoms : WithAttrs(Len(handlers), <<a>>)
    \/ inH = 0 /\ \E attrs \in DropRecords :
          Handle(Len(handlers), [DedupHeader EXCEPT !.attrs = attrs], "nil")

SpecDrop == InitDrop /\ [][NextDrop]_vars

\* Every resolver: the default one, the dropping one and the test suite's.
InitResolve ==
    InitWith(Kinds, {"IncrementIfBuiltinKeyConflict", "DropIfBuiltinKeyConflict",
                     "DoesKeyConflict_IncrementKeyName"}, {"CaseSensitiveCmp"})

NextResolve ==
    \/ inH = 0 /\ \E name \in ResolveNames : WithGroup(Len(handlers), name)
    \/ inH = 0 /\ \E a \in ResolveAtoms : WithAttrs(Len(handlers), <<a>>)
    \/ inH = 0 /\ \E attrs \in ResolveRecords :
          Handle(Len(handlers), [DedupHeader EXCEPT !.attrs = attrs], "nil")

SpecResolve == InitResolve /\ [][NextResolve]_vars

\* The Increment handler with default options and the keys of SeekBatches.
InitSeek == InitWith({"Increment"}, {"IncrementIfBuiltinKeyConflict"}, {"CaseSensitiveCmp"})

NextSeek ==
    \/ inH = 0 /\ \E name \in GroupNames : WithGroup(Len(handlers), name)
    \/ inH = 0 /\ \E attrs \in SeekBatches : WithAttrs(Len(handlers), attrs)
    \/ inH = 0 /\ \E attrs \in SeekRecords :
          Handle(Len(handlers), [DedupHeader EXCEPT !.attrs = attrs], "nil")

SpecSeek == InitSeek /\ [][NextSeek]_vars

\* The Increment handler with the resolvers of the sinks.
InitSinkDedup == InitWith({"Increment"}, SinkResolvers, {"CaseSensitiveCmp"})

NextSinkDedup ==
    \/ inH = 0 /\ \E a \in SinkAtoms : WithAttrs(Len(handlers), <<a>>)
    \/ inH = 0 /\ \E attrs \in SinkRecords :
          Handle(Len(handlers), [DedupHeader EXCEPT !.attrs = attrs], "nil")

SpecSinkDedup == InitSinkDedup /\ [][NextSinkDedup]_vars

\* Both comparison functions, with the default resolver and the resolvers of
\* the tests that set KeyCompare.
InitCase ==
    InitWith(Kinds, {"IncrementIfBuiltinKeyConflict", "DropIfBuiltinKeyConflict",
                     "KeepIfBuiltinKeyConflict"}, Compares)

NextCase ==
    \/ inH = 0 /\ \E name \in CaseNames : WithGroup(Len(handlers), name)
    \/ inH = 0 /\ \E a \in CaseAtoms : WithAttrs(Len(handlers), <<a>>)
    \/ inH = 0 /\ \E attrs \in CaseRecords :
          Handle(Len(handlers), [DedupHeader EXCEPT !.attrs = attrs], "nil")

SpecCase == InitCase /\ [][NextCase]_vars

\* No handler: the functions of the package are called directly.
InitCalls ==
    /\ handlers = <<>>
    /\ nodes = <<>>
    /\ inH = 0
    /\ inRec = NoRecord
    /\ sink = [calls |-> 0, rec |-> NoRecord, returned |-> "nil"]
    /\ ret = "none"
    /\ call = NoCall

\* f := JoinResolveKey(fs...); if f != nil, f(groups, key, index)
CallJoinResolveKey(fs, groups, key, index) ==
    /\ call' = [fn |-> "JoinResolveKey", fs |-> fs, groups |-> groups, key |-> key,
                index |-> index, isNil |-> JoinResolveKeyIsNil(fs),
                result |-> IF JoinResolveKeyIsNil(fs)
                           THEN [key |-> EmptyKey, keep |-> FALSE]
                           ELSE JoinResolveKey(fs, groups, key, index)]
    /\ UNCHANGED <<handlers, nodes, inH, inRec, sink, ret>>

\* One call is looked at: its result does not depend on the calls before it.
NextJoin ==
    /\ call = NoCall
    /\ \E fs \in JoinFunctionLists, groups \in CallGroups, key \in CallKeys,
          index \in 0..MaxCallIndex : CallJoinResolveKey(fs, groups, key, index)

SpecJoin == InitCalls /\ [][NextJoin]_vars

\* h.resolveIncrementKey(uniq, groups, key) and the uniq.Set that follows it in
\* resolveValues, on the map an Increment handler builds from the keys of fill
CallResolveIncrementKey(cmp, resolver, fill, groups, key) ==
    LET h == [kind |-> "Increment", goa |-> 0, keyCompare |-> cmp, resolveKey |-> resolver]
        uniq == IncrementHandler_resolveValues(h, <<>>,
                    [i \in 1..Len(fill) |-> Attr(fill[i], i)], groups)
        res == resolveIncrementKey(h, uniq, groups, key)
    IN  /\ call' = [fn |-> "resolveIncrementKey", keyCompare |-> cmp, resolveKey |-> resolver,
                    uniq |-> uniq, groups |-> groups, key |-> key, result |-> res,
                    after |-> IncrementHandler_resolveValues(h, uniq, <<Attr(key, 9)>>, groups)]
        /\ UNCHANGED <<handlers, nodes, inH, inRec, sink, ret>>

NextProbe ==
    /\ call = NoCall
    /\ \E cmp \in Compares, resolver \in ProbeResolvers, fill \in ProbeFills,
          groups \in CallGroups, key \in ProbeKeys :
              CallResolveIncrementKey(cmp, resolver, fill, groups, key)

SpecProbe == InitCalls /\ [][NextProbe]_vars

\* The probe of the Increment handler, one iteration of its loop at a time.
\* The call up to the loop: index 0, the first resolveKey and uniq.Seek(newKey).
resolveIncrementKeyEnter(cmp, resolver, fill, groups, key) ==
    LET h == [kind |-> "Increment", goa |-> 0, keyCompare |-> cmp, resolveKey |-> resolver]
        uniq == IncrementHandler_resolveValues(h, <<>>,
                    [i \in 1..Len(fill) |-> Attr(fill[i], i)], groups)
        res == ResolveKey(resolver, groups, key, 0)
        pos == TreeSeek(cmp, uniq, res.key)
    IN  /\ call = NoCall
        /\ call' = [fn |-> "resolveIncrementKeyClosure", keyCompare |-> cmp,
                    resolveKey |-> resolver, uniq |-> uniq, groups |-> groups, key |-> key,
                    seek |-> pos, pos |-> pos, index |-> 0, result |-> res,
                    iterations |-> 0, returned |-> FALSE]
        /\ UNCHANGED <<handlers, nodes, inH, inRec, sink, ret>>

\* an iteration that leaves the enumerator on a key equal to newKey
resolveIncrementKeyIteration_StaysOnEqual ==
    /\ call.fn = "resolveIncrementKeyClosure" /\ ~call.returned
    /\ call' =
          IF call.pos > Len(call.uniq) \/ StrLess(call.result.key, call.uniq[call.pos].k)
          THEN [call EXCEPT !.iterations = @ + 1, !.returned = TRUE]
          ELSE IF call.uniq[call.pos].k = call.result.key
          THEN [call EXCEPT !.iterations = @ + 1, !.index = @ + 1,
                            !.result = ResolveKey(call.resolveKey, call.groups, call.key,
                                                  call.index + 1)]
          ELSE [call EXCEPT !.iterations = @ + 1, !.pos = @ + 1]
    /\ UNCHANGED <<handlers, nodes, inH, inRec, sink, ret>>

\* One iteration of the for loop: en.Next(), the return at the end of the map
\* or at a greater key, the next resolveKey at an equal key.
resolveIncrementKeyIteration ==
    /\ call.fn = "resolveIncrementKeyClosure" /\ ~call.returned
    /\ call' =
          IF call.pos > Len(call.uniq) \/ StrLess(call.result.key, call.uniq[call.pos].k)
          THEN [call EXCEPT !.iterations = @ + 1, !.returned = TRUE]
          ELSE IF call.uniq[call.pos].k = call.result.key
          THEN [call EXCEPT !.iterations = @ + 1, !.pos = @ + 1, !.index = @ + 1,
                            !.result = ResolveKey(call.resolveKey, call.groups, call.key,
                                                  call.index + 1)]
          ELSE [call EXCEPT !.iterations = @ + 1, !.pos = @ + 1]
    /\ UNCHANGED <<handlers, nodes, inH, inRec, sink, ret>>

NextProbeLoop ==
    \/ \E cmp \in Compares, resolver \in ProbeResolvers, fill \in ProbeFills,
          groups \in CallGroups, key \in ProbeKeys :
              resolveIncrementKeyEnter(cmp, resolver, fill, groups, key)
    \/ resolveIncrementKeyIteration

\* the goroutine that runs the probe goes on running it
SpecProbeLoop ==
    InitCalls /\ [][NextProbeLoop]_vars /\ WF_vars(resolveIncrementKeyIteration)

\* IncrementKeyName(key, index) and IncrementKeyName(key, index + 1), the
\* candidate the probe asks for next
CallIncrementKeyName(key, index) ==
    /\ call' = [fn |-> "IncrementKeyName", key |-> key, index |-> index,
                result |-> IncrementKeyName(key, index),
                next |-> IncrementKeyName(key, index + 1)]
    /\ UNCHANGED <<handlers, nodes, inH, inRec, sink, ret>>

NextKeyName ==
    /\ call = NoCall
    /\ \E key \in KeyNameKeys, index \in 0..MaxKeyIndex : CallIncrementKeyName(key, index)

SpecKeyName == InitCalls /\ [][NextKeyName]_vars

Sinks == {"sinkGraylog", "sinkStackdriver"}
SinkOf(name) == IF name = "sinkGraylog" THEN sinkGraylog ELSE sinkStackdriver

\* the orders in which a range over a map of n entries can go
RangeOrders(n) == {f \in [1..n -> 1..n] : \A i, j \in 1..n : i # j => f[i] # f[j]}

\* resolveKeys(dest)(groups, key, index), the range over dest.replacers going
\* in the order given
CallResolveKeys(name, order, groups, key, index) ==
    LET dest == SinkOf(name)
        ranged == [dest EXCEPT !.replacers = [i \in 1..Len(order) |-> dest.replacers[order[i]]]]
    IN  /\ call' = [fn |-> "resolveKeys", dest |-> name, order |-> order, groups |-> groups,
                    key |-> key, index |-> index,
                    result |-> resolveKeys(ranged, groups, key, index)]
        /\ UNCHANGED <<handlers, nodes, inH, inRec, sink, ret>>

NextSink ==
    /\ call = NoCall
    /\ \E name \in Sinks, groups \in CallGroups, key \in CallKeys, index \in 0..MaxCallIndex :
          \E order \in RangeOrders(Len(SinkOf(name).replacers)) :
              CallResolveKeys(name, order, groups, key, index)

SpecSink == InitCalls /\ [][NextSink]_vars

\* Package dedup's IncrementHandler: handlers derived from any handler, and
\* records handled by any of them, in any order.
InitPkgDedup ==
    InitWith({"dedup.IncrementHandler"}, {"seekIncrementKeyClosure"}, {"CaseSensitiveCmp"})

NextPkgDedup ==
    \/ \E i \in 1..Len(handlers), name \in GroupNames : WithGroup(i, name)
    \/ \E i \in 1..Len(handlers), attrs \in PkgDedupBatches : WithAttrs(i, attrs)
    \/ \E i \in 1..Len(handlers), attrs \in PkgDedupRecords, err \in Errors :
          dedup_Handle(i, [DedupHeader EXCEPT !.attrs = attrs], err)

SpecPkgDedup == InitPkgDedup /\ [][NextPkgDedup]_vars

----------------------------------------------------------------------------
(* What the claims speak of *)

\* a Handle call has returned without a panic
Handled == inH # 0 /\ ret # "panic"

\* the chain of the handler of the latest Handle call, oldest node first
InGoas == Reverse(Walk(nodes, handlers[inH].goa))

\* the attributes the next handler received
Out == sink.rec.attrs

RECURSIVE NoDuplicates(_)
\* checkForDuplicates: no key twice at one level, no empty attribute, no group
\* with an empty key, at every depth of groups
NoDuplicates(attrs) ==
    /\ \A i, j \in 1..Len(attrs) : i # j => attrs[i].key # attrs[j].key
    /\ \A i \in 1..Len(attrs) :
          /\ ~IsEmptyAttr(attrs[i])
          /\ attrs[i].kind = "group" =>
                attrs[i].key # EmptyKey /\ NoDuplicates(attrs[i].group)

\* C1: with default options, the record a handler forwards has no two
\* attributes with the same key at one level (through all groups), no empty
\* attribute, no group with an empty key, and no root attribute keyed time,
\* level, msg or source.
C1_NoDuplicatesForwarded ==
    (Handled /\ handlers[inH].resolveKey = "IncrementIfBuiltinKeyConflict"
             /\ handlers[inH].keyCompare = "CaseSensitiveCmp") =>
        /\ NoDuplicates(Out)
        /\ \A i \in 1..Len(Out) : ~DoesBuiltinKeyConflict(Out[i].key)

\* a chain with a namespace, and a record, that repeat a root key, hold a
\* builtin key and an empty attribute
C1_Witness ==
    /\ Handled
    /\ Len(InGoas) = 2
    /\ InGoas[1].attrs = <<Attr(TimeKey, 1)>>
    /\ InGoas[2].attrs = <<Group(TimeKey, <<Attr(TimeKey, 2)>>)>>
    /\ inRec.attrs = <<Attr(EmptyKey, 0)>>
    /\ Len(Out) = 2

\* C2: every Handle call calls the next handler exactly once, with the time,
\* level, message and PC of its record and with the attributes rebuilt from
\* the map of this call, which hold no key twice.
C2_ForwardedOnce ==
    inH # 0 =>
        /\ sink.calls = 1
        /\ sink.rec.Time = inRec.Time /\ sink.rec.Level = inRec.Level
        /\ sink.rec.Message = inRec.Message /\ sink.rec.PC = inRec.PC
        /\ Out = buildAttrs(HandleTree(nodes, handlers[inH], inRec))
        /\ \A i, j \in 1..Len(Out) :
              i # j => KeyCompare(handlers[inH].keyCompare, Out[i].key, Out[j].key) # 0

\* a record whose only attribute is dropped is still forwarded, without attributes
C2_Witness ==
    /\ inH # 0
    /\ inRec.attrs = <<Attr(TimeKey, 1)>>
    /\ handlers[inH].goa = 0
    /\ sink.calls = 1
    /\ sink.rec.attrs = <<>>
    /\ sink.rec.PC = 7

\* C3: Handle returns what the next handler's Handle returned, the error or
\* nil, after that one call.
C3_ErrorPropagated ==
    inH # 0 => (ret = sink.returned /\ sink.calls = 1)

C3_Witness ==
    inH # 0 /\ sink.returned = "err" /\ ret = "err" /\ sink.calls = 1

----------------------------------------------------------------------------
(* The attributes of a call, level by level *)

RECURSIVE NestGoas(_)
\* the chain as one list of attributes: a namespace is a group that holds
\* everything added after it
NestGoas(goas) ==
    IF goas = <<>> THEN <<>>
    ELSE IF goas[1].group # EmptyKey
    THEN <<Group(goas[1].group, NestGoas(Tail(goas)))>>
    ELSE goas[1].attrs \o NestGoas(Tail(goas))

\* the attributes of the latest Handle call: the chain, oldest batch first,
\* then the attributes of the record
Input ==
    NestGoas(InGoas \o <<[group |-> EmptyKey, attrs |-> inRec.attrs, next |-> 0]>>)

RECURSIVE Occurrences(_)
\* The occurrences at one level, in order. An empty attribute is none, a group
\* without an occurrence inside is none, and the members of a group with the
\* empty key occur at the level of that group.
Occurrences(attrs) ==
    IF attrs = <<>> THEN <<>>
    ELSE LET a == Head(attrs)
         IN  (IF IsEmptyAttr(a) THEN <<>>
              ELSE IF a.kind = "group" /\ a.key = EmptyKey THEN Occurrences(a.group)
              ELSE IF a.kind = "group" /\ Occurrences(a.group) = <<>> THEN <<>>
              ELSE <<a>>) \o Occurrences(Tail(attrs))

\* the keys of the fields every record has
Builtins == {TimeKey, LevelKey, MessageKey, SourceKey}

\* the key an occurrence of k is resolved to by default: k, and k#01 for a
\* builtin key at the root
ResolvedKey(root, k) ==
    IF root /\ k \in Builtins
    THEN k \o <<35, 48, 49>>
    ELSE k

Keys(attrs) == [i \in 1..Len(attrs) |-> attrs[i].key]
Range(s) == {s[i] : i \in 1..Len(s)}

RECURSIVE OneWins(_, _, _, _)
\* out holds each distinct resolved key of attrs exactly once, with the value
\* of the key's last (first, if not last) occurrence, at every level
OneWins(out, attrs, root, last) ==
    LET occ == Occurrences(attrs)
        keys == [j \in 1..Len(occ) |-> ResolvedKey(root, occ[j].key)]
        of(k) == {j \in 1..Len(occ) : keys[j] = k}
        pick(k) == CHOOSE j \in of(k) :
                      \A j2 \in of(k) : IF last THEN j2 <= j ELSE j <= j2
    IN  /\ Range(Keys(out)) = Range(keys)
        /\ \A i, i2 \in 1..Len(out) : i # i2 => out[i].key # out[i2].key
        /\ \A i \in 1..Len(out) :
              LET a == occ[pick(out[i].key)]
              IN  IF a.kind = "group"
                  THEN out[i].kind = "group" /\ OneWins(out[i].group, a.group, FALSE, last)
                  ELSE out[i] = [a EXCEPT !.key = out[i].key]

\* C4: under the Overwrite handler the output holds each distinct resolved key
\* of a level exactly once, with the value of the key's last occurrence, the
\* occurrences taken oldest batch first and the record's attributes last.
C4_OverwriteLastWins ==
    (Handled /\ handlers[inH].kind = "Overwrite") => OneWins(Out, Input, TRUE, TRUE)

\* a key set by a batch, then by a group, then by the record
C4_Witness ==
    /\ Handled /\ handlers[inH].kind = "Overwrite"
    /\ Len(InGoas) = 2
    /\ InGoas[1].attrs = <<Attr(KeyA, 1)>>
    /\ InGoas[2].attrs = <<Group(KeyA, <<Attr(KeyA, 1), Attr(KeyA, 2)>>)>>
    /\ inRec.attrs = <<Attr(KeyA, 2)>>
    /\ Out = <<Attr(KeyA, 2)>>

RECURSIVE Distinct(_)
\* the distinct elements of s in the order of their first occurrence
Distinct(s) ==
    IF s = <<>> THEN <<>>
    ELSE LET d == Distinct(SubSeq(s, 1, Len(s) - 1))
         IN  IF s[Len(s)] \in Range(d) THEN d ELSE Append(d, s[Len(s)])

RECURSIVE InFirstOccurrenceOrder(_, _, _)
\* the keys of out are the distinct resolved keys of attrs in the order of
\* their first occurrence, at every level
InFirstOccurrenceOrder(out, attrs, root) ==
    LET occ == Occurrences(attrs)
        keys == [j \in 1..Len(occ) |-> ResolvedKey(root, occ[j].key)]
        first(k) == CHOOSE j \in 1..Len(occ) :
                       keys[j] = k /\ \A j2 \in 1..(j - 1) : keys[j2] # k
    IN  /\ Keys(out) = Distinct(keys)
        /\ \A i \in 1..Len(out) :
              (out[i].kind = "group" /\ occ[first(out[i].key)].kind = "group") =>
                  InFirstOccurrenceOrder(out[i].group, occ[first(out[i].key)].group, FALSE)

RECURSIVE Ascending(_)
\* the keys of out ascend in byte order, at every level
Ascending(out) ==
    /\ \A i, j \in 1..Len(out) : i < j => StrLess(out[i].key, out[j].key)
    /\ \A i \in 1..Len(out) : out[i].kind = "group" => Ascending(out[i].group)

\* C5 as stated: under the Ignore handler the output keys are the distinct
\* keys in the order of their first occurrence, each with the value of its
\* first occurrence.
C5_Original ==
    (Handled /\ handlers[inH].kind = "Ignore") =>
        /\ OneWins(Out, Input, TRUE, FALSE)
        /\ InFirstOccurrenceOrder(Out, Input, TRUE)

\* C5: under the Ignore handler the output keys are the distinct resolved keys
\* of each level, each once and with the value of its first occurrence (later
\* occurrences are discarded); they are emitted in ascending key order.
C5_IgnoreFirstWins ==
    (Handled /\ handlers[inH].kind = "Ignore") =>
        /\ OneWins(Out, Input, TRUE, FALSE)
        /\ Ascending(Out)

\* a key that is first seen after a greater key, and a repeated key
C5_Witness ==
    /\ Handled /\ handlers[inH].kind = "Ignore"
    /\ Len(InGoas) = 2
    /\ InGoas[1].attrs = <<Attr(KeyA01, 1)>>
    /\ InGoas[2].attrs = <<Attr(KeyA, 1)>>
    /\ inRec.attrs = <<Attr(KeyA, 2)>>
    /\ Out = <<Attr(KeyA, 1), Attr(KeyA01, 1)>>

RECURSIVE UnMap(_)
\* the attributes buildGroupMap made the entries es from
UnMap(es) ==
    [i \in 1..Len(es) |->
        IF es[i].kind = "map" THEN Group(es[i].key, UnMap(es[i].group)) ELSE es[i]]

RECURSIVE AllAppended(_, _, _)
\* out holds each distinct resolved key of attrs exactly once: with the value
\* of its occurrence when there is one, else with the list of the values of
\* its occurrences in order, at every level
AllAppended(out, attrs, root) ==
    LET occ == Occurrences(attrs)
        keys == [j \in 1..Len(occ) |-> ResolvedKey(root, occ[j].key)]
        of(k) == SelectSeq([j \in 1..Len(occ) |-> j], LAMBDA j : keys[j] = k)
    IN  /\ Range(Keys(out)) = Range(keys)
        /\ \A i, i2 \in 1..Len(out) : i # i2 => out[i].key # out[i2].key
        /\ \A i \in 1..Len(out) :
              LET js == of(out[i].key)
              IN  IF Len(js) = 1
                  THEN IF occ[js[1]].kind = "group"
                       THEN /\ out[i].kind = "group"
                            /\ AllAppended(out[i].group, occ[js[1]].group, FALSE)
                       ELSE out[i] = [occ[js[1]] EXCEPT !.key = out[i].key]
                  ELSE /\ out[i].kind = "slice"
                       /\ Len(out[i].list) = Len(js)
                       /\ \A n \in 1..Len(js) :
                             LET a == occ[js[n]]
                                 x == out[i].list[n]
                             IN  IF a.kind = "group"
                                 THEN /\ x.kind = "map" /\ x.key = EmptyKey
                                      /\ AllAppended(UnMap(x.group), a.group, FALSE)
                                 ELSE x = [a EXCEPT !.key = EmptyKey]

\* C7: under the Append handler the output holds exactly one entry per
\* distinct key of a level: the bare value when the key occurred once, else a
\* list of the values of all its occurrences in occurrence order, oldest batch
\* first and the record's attributes last.
C7_AppendAll ==
    (Handled /\ handlers[inH].kind = "Append") => AllAppended(Out, Input, TRUE)

\* a key with three occurrences, one of them a group that repeats a key inside
C7_Witness ==
    /\ Handled /\ handlers[inH].kind = "Append"
    /\ Len(InGoas) = 2
    /\ InGoas[1].attrs = <<Attr(KeyA, 1)>>
    /\ InGoas[2].attrs = <<Group(KeyA, <<Attr(KeyA, 1), Attr(KeyA, 2)>>)>>
    /\ inRec.attrs = <<Attr(KeyA, 2)>>
    /\ Len(Out) = 1 /\ Out[1].kind = "slice" /\ Len(Out[1].list) = 3
    /\ Out[1].list[2].kind = "map" /\ Out[1].list[2].group[1].kind = "slice"

\* the n-th candidate for key k: k, k#01, k#02, ...
Candidate(k, n) ==
    IF n = 0 THEN k ELSE k \o <<35, 48 + (n \div 10), 48 + (n % 10)>>

\* the first candidate of a key: k, and k#01 for a builtin key at the root
StartIndex(root, k) ==
    IF root /\ k \in Builtins THEN 1 ELSE 0

\* the first candidate for k that is not among the keys held
FirstFree(held, root, k) ==
    LET s == StartIndex(root, k)
    IN  Candidate(k, CHOOSE n \in s..(s + Cardinality(held)) :
                        /\ Candidate(k, n) \notin held
                        /\ \A m \in s..(n - 1) : Candidate(k, m) \in held)

\* the candidate for k numbered by the earlier occurrences of k
NthKey(seen, root, k) ==
    Candidate(k, StartIndex(root, k) + Cardinality({j \in 1..Len(seen) : seen[j] = k}))

RECURSIVE Incremented(_, _, _, _)
\* The entries of one level, st.out, after the attributes attrs, and the keys
\* they were given under, st.seen. An occurrence of k is stored under the first
\* free candidate for k (skip), or under the candidate numbered by the earlier
\* occurrences of k (not skip). A group given under the empty key is an
\* occurrence of that key; when its key stays empty its members occur at this
\* level instead.
Incremented(st, attrs, root, skip) ==
    IF attrs = <<>> THEN st
    ELSE
    LET a == Head(attrs)
        key == IF skip THEN FirstFree(Range(Keys(st.out)), root, a.key)
               ELSE NthKey(st.seen, root, a.key)
        members == Incremented([out |-> <<>>, seen |-> <<>>], a.group, FALSE, skip).out
        stored(x) == [out |-> Append(st.out, x), seen |-> Append(st.seen, a.key)]
    IN  IF IsEmptyAttr(a) THEN Incremented(st, Tail(attrs), root, skip)
        ELSE IF a.kind # "group"
        THEN Incremented(stored([a EXCEPT !.key = key]), Tail(attrs), root, skip)
        ELSE IF key = EmptyKey
        THEN Incremented(Incremented(st, a.group, root, skip), Tail(attrs), root, skip)
        ELSE IF members = <<>> THEN Incremented(st, Tail(attrs), root, skip)
        ELSE Incremented(stored(Group(key, members)), Tail(attrs), root, skip)

RECURSIVE Entries(_)
\* the attributes of a level and below, without their order
Entries(attrs) ==
    { [key |-> attrs[i].key, kind |-> attrs[i].kind, val |-> attrs[i].val,
       members |-> Entries(attrs[i].group)] : i \in 1..Len(attrs) }

RECURSIVE DistinctKeys(_)
\* no two keys of a level are equal, at every level
DistinctKeys(attrs) ==
    /\ \A i, j \in 1..Len(attrs) : i # j => attrs[i].key # attrs[j].key
    /\ \A i \in 1..Len(attrs) : DistinctKeys(attrs[i].group)

\* out is what Incremented expects of the attributes of the call
IncrementedAs(out, skip) ==
    LET exp == Incremented([out |-> <<>>, seen |-> <<>>], Input, TRUE, skip).out
    IN  /\ Len(out) = Len(exp)
        /\ Entries(out) = Entries(exp)
        /\ DistinctKeys(out)

RECURSIVE NestedLikeOrdinary(_)
\* in the groups of attrs, at every depth, a builtin key has a suffix only
\* next to the bare key
NestedLikeOrdinary(attrs) ==
    \A i \in 1..Len(attrs) :
        attrs[i].kind = "group" =>
            /\ \A k \in Builtins, n \in 1..9 :
                  Candidate(k, n) \in Range(Keys(attrs[i].group)) =>
                      k \in Range(Keys(attrs[i].group))
            /\ NestedLikeOrdinary(attrs[i].group)

\* C8: with default options no root key of the output is time, level, msg or
\* source: a root attribute, group or namespace given under one of them is
\* emitted with a suffix, key#01 being held; inside a namespace or group the
\* same key is resolved like any other key and is emitted bare.
C8_BuiltinsTakenAtRootOnly ==
    (Handled /\ handlers[inH].resolveKey = "IncrementIfBuiltinKeyConflict") =>
        /\ \A i \in 1..Len(Out) : Out[i].key \notin Builtins
        /\ \A j \in 1..Len(Input) :
              (Input[j].key \in Builtins /\ Occurrences(<<Input[j]>>) # <<>>) =>
                  Candidate(Input[j].key, 1) \in Range(Keys(Out))
        /\ NestedLikeOrdinary(Out)
        /\ \A k \in Builtins :
              (/\ Len(Input) = 1 /\ Input[1].kind = "group" /\ Input[1].key # EmptyKey
               /\ \E m \in 1..Len(Input[1].group) :
                     Input[1].group[m].key = k /\ Input[1].group[m].kind = "any") =>
                  /\ Len(Out) = 1 /\ Out[1].kind = "group"
                  /\ k \in Range(Keys(Out[1].group))

\* time given at the root, then as a namespace, then inside that namespace
C8_Witness ==
    /\ Handled /\ handlers[inH].kind = "Increment"
    /\ Len(InGoas) = 2
    /\ InGoas[1].attrs = <<Attr(TimeKey, 1)>>
    /\ InGoas[2].group = TimeKey
    /\ inRec.attrs = <<Attr(TimeKey, 1)>>
    /\ Out = <<Attr(Candidate(TimeKey, 1), 1),
               Group(Candidate(TimeKey, 2), <<Attr(TimeKey, 1)>>)>>

\* the first namespace of the chain that the resolver drops (0: none); the
\* groups path is empty as long as no namespace was kept
FirstDropped(h, goas) ==
    LET dropped(j) == /\ goas[j].group # EmptyKey
                      /\ ~ResolveKey(h.resolveKey, <<>>, goas[j].group, 0).keep
        J == {j \in 1..Len(goas) :
                /\ dropped(j)
                /\ \A j2 \in 1..(j - 1) : goas[j2].group = EmptyKey}
    IN  IF J = {} THEN 0 ELSE CHOOSE j \in J : TRUE

\* C9: when the resolver returns keep = false for a namespace, the output is
\* that of the chain before the namespace: nothing added after the namespace,
\* the attributes of the record included, is in it.
C9_DroppedNamespaceAbsent ==
    LET h == handlers[inH]
        j == FirstDropped(h, InGoas)
    IN  (Handled /\ j # 0) =>
            Out = RecordAddAttrs(buildAttrs(createAttrTree(h, SubSeq(InGoas, 1, j - 1))))

RECURSIVE Spliced(_)
\* attrs with every group of the empty key replaced by its members
Spliced(attrs) ==
    IF attrs = <<>> THEN <<>>
    ELSE LET a == Head(attrs)
         IN  (IF a.kind = "group" /\ a.key = EmptyKey THEN Spliced(a.group)
              ELSE IF a.kind = "group" THEN <<Group(a.key, Spliced(a.group))>>
              ELSE <<a>>) \o Spliced(Tail(attrs))

\* C10: a group with the empty key is inlined, whatever its level holds: the
\* output is that of the same call with the members given in place of the group.
C10_EmptyKeyGroupInlined ==
    LET h == handlers[inH]
        goas == InGoas \o <<[group |-> EmptyKey, attrs |-> inRec.attrs, next |-> 0]>>
        spliced == [j \in 1..Len(goas) |-> [goas[j] EXCEPT !.attrs = Spliced(goas[j].attrs)]]
    IN  Handled => Out = RecordAddAttrs(buildAttrs(createAttrTree(h, spliced)))

RECURSIVE NoEmptyGroups(_)
\* no group, and no mapping made of a group, is without members, at every
\* depth and inside the lists of the Append handler
NoEmptyGroups(attrs) ==
    \A i \in 1..Len(attrs) :
        CASE attrs[i].kind \in {"group", "map"} ->
                Len(attrs[i].group) > 0 /\ NoEmptyGroups(attrs[i].group)
          [] attrs[i].kind = "slice" -> NoEmptyGroups(attrs[i].list)
          [] OTHER -> TRUE

\* the attributes Handle rebuilds from its map, before Record.AddAttrs
Built == buildAttrs(HandleTree(nodes, handlers[inH], inRec))

\* C11: no group without members is in the output of a handler, at any depth:
\* not for a namespace without later attributes, not for a group attribute
\* without members, not for a group whose members were all dropped, skipped
\* or empty groups themselves.
C11_NoEmptyGroups ==
    Handled => NoEmptyGroups(Built) /\ NoEmptyGroups(Out) /\ Out = Built

\* a group whose only member is dropped, then a namespace that holds only a
\* dropped attribute
C11_Witness ==
    /\ Handled /\ handlers[inH].resolveKey = "DoesKeyConflict_IncrementKeyName"
    /\ Len(InGoas) = 2
    /\ InGoas[1].attrs = <<Group(KeyA, <<Attr(HelloKey, 1)>>)>>
    /\ InGoas[2].group = KeyA
    /\ inRec.attrs = <<Attr(HelloKey, 1), Attr(FooKey, 2)>>
    /\ Len(Out) = 1 /\ Out[1].key = KeyA /\ Len(Out[1].group) = 1

\* the output of a fresh handler with the options of h for one record whose
\* attributes are attrs
Again(h, attrs) ==
    RecordAddAttrs(buildAttrs(HandleTree(nodes, [h EXCEPT !.goa = 0],
                                         [inRec EXCEPT !.attrs = attrs])))

\* C12: for the Overwrite, Ignore and Increment handlers with default options
\* the output, given as the attributes of one record to a fresh handler of
\* the same policy, comes out as the same list: keys, values, nesting, order.
C12_Idempotent ==
    (/\ Handled
     /\ handlers[inH].kind \in {"Overwrite", "Ignore", "Increment"}
     /\ handlers[inH].resolveKey = "IncrementIfBuiltinKeyConflict") =>
        Again(handlers[inH], Out) = Out

\* an output with incremented builtin keys and a nested group
C12_Witness ==
    /\ Handled /\ handlers[inH].kind = "Increment"
    /\ Len(InGoas) = 2
    /\ InGoas[1].attrs = <<Attr(TimeKey, 1)>>
    /\ InGoas[2].attrs = <<Group(TimeKey, <<Attr(TimeKey, 2)>>)>>
    /\ inRec.attrs = <<Attr(KeyA, 1), Attr(KeyA, 2)>>
    /\ Len(Out) = 4
    /\ Again(handlers[inH], Out) = Out

\* C13: WithAttrs and WithGroup return a new handler whose chain is the
\* receiver's chain, with at most one node in front; every handler and every
\* node that existed stays as it was, so each existing handler has the chain
\* and the output it had before, and a child's node is in no sibling's chain.
C13_CopyOnExtend ==
    [][Len(handlers') > Len(handlers) =>
        /\ Len(handlers') = Len(handlers) + 1
        /\ \A n \in 1..Len(nodes) : nodes'[n] = nodes[n]
        /\ \A i \in 1..Len(handlers) :
              /\ handlers'[i] = handlers[i]
              /\ Walk(nodes', handlers'[i].goa) = Walk(nodes, handlers[i].goa)
              /\ \A r \in SmallRecords :
                    HandleTree(nodes', handlers'[i], r) = HandleTree(nodes, handlers[i], r)
        /\ \E i \in 1..Len(handlers) :
              LET w == Walk(nodes', handlers'[Len(handlers')].goa)
              IN  \/ w = Walk(nodes, handlers[i].goa)
                  \/ Len(w) > 0 /\ Tail(w) = Walk(nodes, handlers[i].goa)
                                /\ handlers'[Len(handlers')].goa = Len(nodes')
                                /\ Len(nodes') = Len(nodes) + 1]_vars

\* two children of the first handler, each with a node of its own, and a
\* Handle call on the parent after both were derived
C13_Witness ==
    /\ Len(handlers) = 3 /\ Len(nodes) = 2
    /\ handlers[1].goa = 0 /\ handlers[2].goa = 1 /\ handlers[3].goa = 2
    /\ nodes[1].next = 0 /\ nodes[2].next = 0
    /\ nodes[1].group = KeyA /\ nodes[2].attrs = <<Attr(KeyA, 1)>>
    /\ inH = 1 /\ sink.calls = 1

\* C14: Handle writes no chain node and no handler field (no resolved
\* namespace key is stored in a node's group name): a step that derives no
\* handler leaves every node and handler as it was, and the same record
\* handled again by the same handler gives the same output.
C14_HandleWritesNothingShared ==
    [][Len(handlers') = Len(handlers) =>
        /\ nodes' = nodes
        /\ handlers' = handlers
        /\ (inH' # 0 /\ ret' # "panic") =>
              sink'.rec.attrs = RecordAddAttrs(buildAttrs(
                  dedup_IncrementHandler_createAttrTree(handlers'[inH'], <<>>,
                      dedup_Goas(nodes', handlers'[inH'], inRec'), 0).uniq))]_vars

\* C15: WithGroup with the empty name and WithAttrs with no attributes add no
\* node: the handler they return has the receiver's chain, so it gives the
\* receiver's output for every record and what is added to it later lands at
\* the receiver's depth.
C15_EmptyIsNoOp ==
    [][\A i \in 1..Len(handlers) :
          (WithGroup(i, EmptyKey) \/ WithAttrs(i, <<>>)) =>
              /\ nodes' = nodes
              /\ handlers'[Len(handlers')] = handlers[i]
              /\ \A r \in SmallRecords :
                    HandleTree(nodes', handlers'[Len(handlers')], r)
                        = HandleTree(nodes, handlers[i], r)]_vars

\* a handler derived without a node from the first one, then a batch added to
\* it, which a record finds at the root
C15_Witness ==
    /\ Len(handlers) = 3 /\ Len(nodes) = 1
    /\ handlers[2].goa = 0 /\ handlers[3].goa = 1
    /\ nodes[1].attrs = <<Attr(KeyA, 1)>> /\ nodes[1].next = 0
    /\ inH = 3 /\ inRec.attrs = <<Attr(TimeKey, 1)>>
    /\ handlers[3].resolveKey = "IncrementIfBuiltinKeyConflict"
    /\ Keys(Out) = <<KeyA, Candidate(TimeKey, 1)>>

\* C16: a namespace of the chain, under the name it is kept by, holds every
\* attribute and every namespace added after it and the attributes of the
\* record, and what was added before it is at the level outside: the output is
\* that of one record whose attributes are the chain written as nested groups,
\* each namespace a group that runs to the end of the chain.
C16_NamespaceHoldsAllLater ==
    (/\ Handled
     /\ handlers[inH].resolveKey = "IncrementIfBuiltinKeyConflict") =>
        Out = Again(handlers[inH], Input)

\* a batch, then a namespace, then a record: the batch at the root, the record
\* in the group; and two namespaces, the record two levels down
C16_Witness ==
    /\ Handled /\ Len(InGoas) = 2
    /\ \/ /\ handlers[inH].kind = "Increment"
          /\ InGoas[1].attrs = <<Attr(KeyA, 1)>>
          /\ InGoas[2].group = TimeKey
          /\ inRec.attrs = <<Attr(KeyA, 1), Attr(KeyA, 2)>>
          /\ Out = <<Attr(KeyA, 1),
                     Group(Candidate(TimeKey, 1), <<Attr(KeyA, 1), Attr(Candidate(KeyA, 1), 2)>>)>>
       \/ /\ InGoas[1].group = KeyA
          /\ InGoas[2].group = TimeKey
          /\ inRec.attrs = <<Attr(TimeKey, 1)>>
          /\ Out = <<Group(KeyA, <<Group(TimeKey, <<Attr(TimeKey, 1)>>)>>)>>

\* C17: under the Increment handler with default options, when the root holds
\* msg#01, msg#01a and msg#02 before the first attribute keyed msg, the n-th
\* attribute keyed msg is emitted as msg#03, msg#04, ...: the probe passes
\* msg#01a, which lies between two candidates, and the three keys keep their
\* values.
C17_ProbePassesOtherKeys ==
    LET occ == Occurrences(Input)
        ms == {i \in 1..Len(occ) : occ[i].key = MessageKey}
        first == CHOOSE i \in ms : \A i2 \in ms : i <= i2
        nth(n) == CHOOSE i \in ms : Cardinality({i2 \in ms : i2 <= i}) = n
        firstOf(k) == CHOOSE j \in 1..Len(occ) :
                         occ[j].key = k /\ \A j2 \in 1..(j - 1) : occ[j2].key # k
    IN  (/\ Handled /\ handlers[inH].kind = "Increment"
         /\ handlers[inH].resolveKey = "IncrementIfBuiltinKeyConflict"
         /\ ms # {}
         /\ {occ[j].key : j \in 1..(first - 1)} = {Msg01, Msg01a, Msg02}) =>
            /\ \A n \in 1..Cardinality(ms) :
                  \E i \in 1..Len(Out) :
                      Out[i] = Attr(Candidate(MessageKey, 2 + n), occ[nth(n)].val)
            /\ \A k \in {Msg01, Msg01a, Msg02} :
                  \E i \in 1..Len(Out) : Out[i] = occ[firstOf(k)]

\* the batch of the test suite: the three keys, then msg twice
C17_Witness ==
    /\ Handled /\ handlers[inH].kind = "Increment"
    /\ Len(InGoas) = 1
    /\ InGoas[1].attrs = <<Attr(Msg01, 1), Attr(Msg01a, 2), Attr(Msg02, 3),
                           Attr(MessageKey, 4), Attr(MessageKey, 5)>>
    /\ inRec.attrs = <<>>
    /\ Out = <<Attr(Msg01, 1), Attr(Msg01a, 2), Attr(Msg02, 3),
               Attr(Candidate(MessageKey, 3), 4), Attr(Candidate(MessageKey, 4), 5)>>

RECURSIVE Plain(_)
\* the entries es of a mapping hold values, lists and mappings, and no group
Plain(es) ==
    \A i \in 1..Len(es) :
        CASE es[i].kind = "map" -> Plain(es[i].group)
          [] es[i].kind = "slice" -> Plain(es[i].list)
          [] OTHER -> es[i].kind = "any"

RECURSIVE AsMapping(_)
\* the members of a group as the entries of a mapping from key to value
AsMapping(attrs) ==
    [i \in 1..Len(attrs) |->
        IF attrs[i].kind = "group"
        THEN AnyMap(attrs[i].key, AsMapping(attrs[i].group))
        ELSE attrs[i]]

\* the deduplicated members of the group a, as handler h emits them for a
\* record that holds a alone, one level down
Members(h, a) == Again(h, <<Group(KeyA, a.group)>>)[1].group

RECURSIVE MixedAsMappings(_, _, _, _)
\* at every level of attributes: a key with one occurrence, a group, is a
\* nested group; a key with several occurrences is a list with one element per
\* occurrence, in order: the value of a scalar, and for a group the mapping of
\* its own deduplicated members
MixedAsMappings(h, out, attrs, root) ==
    LET occ == Occurrences(attrs)
        keys == [j \in 1..Len(occ) |-> ResolvedKey(root, occ[j].key)]
        of(k) == SelectSeq([j \in 1..Len(occ) |-> j], LAMBDA j : keys[j] = k)
    IN  \A i \in 1..Len(out) :
            LET js == of(out[i].key)
            IN  /\ Len(js) >= 1
                /\ (Len(js) = 1 /\ occ[js[1]].kind = "group") =>
                      /\ out[i].kind = "group"
                      /\ MixedAsMappings(h, out[i].group, occ[js[1]].group, FALSE)
                /\ Len(js) > 1 =>
                      /\ out[i].kind = "slice"
                      /\ Len(out[i].list) = Len(js)
                      /\ \A n \in 1..Len(js) :
                            LET a == occ[js[n]]
                                x == out[i].list[n]
                            IN  IF a.kind = "group"
                                THEN /\ x = AnyMap(EmptyKey, AsMapping(Members(h, a)))
                                     /\ Plain(x.group)
                                ELSE x = Attr(EmptyKey, a.val)

\* C18: under the Append handler the entry of a key held by occurrences of
\* several kinds is a list in occurrence order: a scalar gives its value, a
\* group or a namespace gives the mapping of its own deduplicated members, with
\* no group inside; a key held by one group alone is a nested group.
C18_MixedKindsAsMappings ==
    (Handled /\ handlers[inH].kind = "Append") =>
        MixedAsMappings(handlers[inH], Out, Input, TRUE)

\* a scalar, then a namespace of the same key that holds one group which
\* repeats a key inside
C18_Witness ==
    /\ Handled /\ handlers[inH].kind = "Append"
    /\ Len(InGoas) = 2
    /\ InGoas[1].attrs = <<Attr(KeyA, 1)>>
    /\ InGoas[2].group = KeyA
    /\ inRec.attrs = <<Group(KeyA, <<Attr(KeyA, 1), Attr(KeyA, 2)>>)>>
    /\ Out = <<AnySlice(KeyA, <<Attr(EmptyKey, 1),
                 AnyMap(EmptyKey, <<AnyMap(KeyA, <<AnySlice(KeyA,
                     <<Attr(EmptyKey, 1), Attr(EmptyKey, 2)>>)>>)>>)>>)>>

RECURSIVE CaseFolded(_, _, _)
\* out holds one entry for the occurrences of attrs whose keys are equal but
\* for the case of letters. Overwrite: the entry has the key and the value of
\* the last of them. Append: the entry has the key of the first of them and
\* the value of the one, or the list of the values of all in order. The same
\* inside every group.
CaseFolded(out, attrs, kind) ==
    LET occ == Occurrences(attrs)
        of(k) == SelectSeq([j \in 1..Len(occ) |-> j],
                           LAMBDA j : ToLower(occ[j].key) = ToLower(k))
    IN  /\ \A j \in 1..Len(occ) :
              \E i \in 1..Len(out) : ToLower(out[i].key) = ToLower(occ[j].key)
        /\ \A i, i2 \in 1..Len(out) :
              i # i2 => ToLower(out[i].key) # ToLower(out[i2].key)
        /\ \A i \in 1..Len(out) :
              LET js == of(out[i].key)
                  pick == IF kind = "Overwrite" THEN occ[js[Len(js)]] ELSE occ[js[1]]
              IN  /\ Len(js) >= 1
                  /\ out[i].key = pick.key
                  /\ IF kind = "Overwrite" \/ Len(js) = 1
                     THEN IF pick.kind = "group"
                          THEN /\ out[i].kind = "group"
                               /\ CaseFolded(out[i].group, pick.group, kind)
                          ELSE out[i] = pick
                     ELSE /\ out[i].kind = "slice"
                          /\ Len(out[i].list) = Len(js)
                          /\ \A n \in 1..Len(js) :
                                LET a == occ[js[n]]
                                    x == out[i].list[n]
                                IN  IF a.kind = "group"
                                    THEN /\ x.kind = "map"
                                         /\ CaseFolded(UnMap(x.group), a.group, kind)
                                    ELSE x = Attr(EmptyKey, a.val)

\* C19: with KeyCompare = CaseInsensitiveCmp keys that differ only in the case
\* of letters are one key: the Overwrite handler emits one entry with the
\* spelling and the value of the last occurrence, the Append handler one entry
\* with the spelling of the first occurrence and all values in order.
C19_CaseInsensitiveOneEntry ==
    (/\ Handled
     /\ handlers[inH].keyCompare = "CaseInsensitiveCmp"
     /\ handlers[inH].kind \in {"Overwrite", "Append"}) =>
        CaseFolded(Out, Input, handlers[inH].kind)

RECURSIVE WithoutDropped(_, _, _)
\* attrs without the attributes for which the resolver of h returns keep =
\* false, at every depth; path holds the keys of the groups around attrs
WithoutDropped(h, attrs, path) ==
    IF attrs = <<>> THEN <<>>
    ELSE LET a == Head(attrs)
             r == ResolveKey(h.resolveKey, path, a.key, 0)
         IN  (IF IsEmptyAttr(a) THEN <<a>>
              ELSE IF ~r.keep THEN <<>>
              ELSE IF a.kind # "group" THEN <<a>>
              ELSE IF r.key = EmptyKey THEN <<Group(a.key, WithoutDropped(h, a.group, path))>>
              ELSE <<Group(a.key, WithoutDropped(h, a.group, Append(path, r.key)))>>)
             \o WithoutDropped(h, Tail(attrs), path)

RECURSIVE GoasWithoutDropped(_, _, _)
\* the chain with every batch taken without its dropped attributes; the path
\* grows by each namespace the resolver keeps
GoasWithoutDropped(h, goas, path) ==
    IF goas = <<>> THEN <<>>
    ELSE LET g == Head(goas)
             r == ResolveKey(h.resolveKey, path, g.group, 0)
         IN  IF g.group # EmptyKey
             THEN <<g>> \o GoasWithoutDropped(h, Tail(goas),
                                              IF r.keep THEN Append(path, r.key) ELSE path)
             ELSE <<[g EXCEPT !.attrs = WithoutDropped(h, g.attrs, path)]>>
                  \o GoasWithoutDropped(h, Tail(goas), path)

RECURSIVE NoNamespaceDropped(_, _, _)
\* the resolver of h keeps every namespace of the chain
NoNamespaceDropped(h, goas, path) ==
    \/ goas = <<>>
    \/ /\ Head(goas).group = EmptyKey
       /\ NoNamespaceDropped(h, Tail(goas), path)
    \/ /\ Head(goas).group # EmptyKey
       /\ ResolveKey(h.resolveKey, path, Head(goas).group, 0).keep
       /\ NoNamespaceDropped(h, Tail(goas),
              Append(path, ResolveKey(h.resolveKey, path, Head(goas).group, 0).key))

\* the keys the resolver of h can return, with keep = true, for key k at a
\* level with max occurrences: the Increment handler calls it with a higher
\* index for each key it finds taken
ReturnedKeys(h, path, k, max) ==
    {ResolveKey(h.resolveKey, path, k, n).key :
        n \in {n2 \in 0..(IF h.kind = "Increment" THEN max ELSE 0) :
                 ResolveKey(h.resolveKey, path, k, n2).keep}}

RECURSIVE UnderReturnedKeys(_, _, _, _)
\* every occurrence that is kept has an entry of out under a key the resolver
\* returned for it, and every entry of out is under such a key; the same
\* inside a group that is the one occurrence of its key
UnderReturnedKeys(h, out, attrs, path) ==
    LET occ == Occurrences(WithoutDropped(h, attrs, path))
        of(k) == {j \in 1..Len(occ) : k \in ReturnedKeys(h, path, occ[j].key, Len(occ))}
    IN  /\ \A j \in 1..Len(occ) :
              \E i \in 1..Len(out) : out[i].key \in ReturnedKeys(h, path, occ[j].key, Len(occ))
        /\ \A i \in 1..Len(out) :
              /\ of(out[i].key) # {}
              /\ \A j \in of(out[i].key) :
                    (Cardinality(of(out[i].key)) = 1 /\ occ[j].kind = "group") =>
                        /\ out[i].kind = "group"
                        /\ UnderReturnedKeys(h, out[i].group, occ[j].group,
                                             Append(path, out[i].key))

\* C20: an attribute for which the resolver returns keep = false is not in
\* the output, and the output is that of the same chain and record without
\* the dropped attributes; an attribute that is kept is emitted under a key
\* the resolver returned for it.
C20_DroppedAsIfAbsent ==
    LET h == handlers[inH]
        goas == InGoas \o <<[group |-> EmptyKey, attrs |-> inRec.attrs, next |-> 0]>>
    IN  Handled =>
            /\ Out = RecordAddAttrs(buildAttrs(
                        createAttrTree(h, GoasWithoutDropped(h, goas, <<>>))))
            /\ NoNamespaceDropped(h, InGoas, <<>>) => UnderReturnedKeys(h, Out, Input, <<>>)

\* the record of the test suite, hello dropped and foo renamed, after a group
\* that holds a dropped attribute
C20_Witness ==
    /\ Handled /\ handlers[inH].resolveKey = "DoesKeyConflict_IncrementKeyName"
    /\ handlers[inH].kind = "Ignore"
    /\ Len(InGoas) = 1
    /\ InGoas[1].attrs = <<Group(FooKey, <<Attr(HelloKey, 1), Attr(KeyA, 2)>>)>>
    /\ inRec.attrs = <<Attr(HelloKey, 1), Attr(FooKey, 2)>>
    /\ Out = <<Group(FooKey \o <<64, 49>>, <<Attr(KeyA, 2)>>)>>

\* the comparison function named cmp, applied to two keys
CompareAs(cmp, a, b) ==
    IF cmp = "CaseInsensitiveCmp" THEN CaseInsensitiveCmp(a, b) ELSE CaseSensitiveCmp(a, b)

RECURSIVE AscendingUnder(_, _)
\* each key of out is below the next one under cmp, in out and in the members
\* of every group inside it
AscendingUnder(cmp, out) ==
    /\ \A i \in 1..(Len(out) - 1) : CompareAs(cmp, out[i].key, out[i + 1].key) < 0
    /\ \A i \in 1..Len(out) : out[i].kind = "group" => AscendingUnder(cmp, out[i].group)

\* C21: the attributes Handle forwards, and the members of every group among
\* them, are in strictly ascending order of key under the comparison function
\* of the handler, whatever the order they were given in.
C21_AscendingUnderKeyCompare ==
    Handled => AscendingUnder(handlers[inH].keyCompare, Out)

\* B given before a and a group A: B is last when case is ignored
C21_Witness ==
    /\ Handled /\ handlers[inH].keyCompare = "CaseInsensitiveCmp"
    /\ handlers[inH].kind = "Ignore"
    /\ Len(InGoas) = 2
    /\ InGoas[1].attrs = <<Attr(KeyUpperB, 3)>>
    /\ InGoas[2].attrs = <<Attr(KeyA, 1)>>
    /\ inRec.attrs = <<Attr(KeyUpperA, 2)>>
    /\ Out = <<Attr(KeyA, 1), Attr(KeyUpperB, 3)>>

RECURSIVE Applied(_, _, _, _)
\* the calls made when the functions fs are applied in order, each to the key
\* the one before returned, up to the first that returns keep = false
Applied(fs, groups, key, index) ==
    IF fs = <<>> THEN <<>>
    ELSE LET r == ResolveKey(Head(fs), groups, key, index)
         IN  <<[arg |-> key, res |-> r]>>
                 \o (IF r.keep THEN Applied(Tail(fs), groups, r.key, index) ELSE <<>>)

\* C22: JoinResolveKey of no function is nil; of one function or more it
\* applies them in order, each to the key the one before returned, with the
\* same groups and index, up to the first that returns keep = false, and
\* reports the keep of the last one applied; a final key that differs from
\* the original is returned as it is, and when no function changed the key
\* the result is IncrementKeyName(key, index).
C22_JoinAppliesInOrder ==
    call.fn = "JoinResolveKey" =>
        /\ call.isNil <=> call.fs = <<>>
        /\ ~call.isNil =>
              LET ap == Applied(call.fs, call.groups, call.key, call.index)
                  last == ap[Len(ap)].res
              IN  /\ call.result.keep = last.keep
                  /\ (\E i \in 1..Len(ap) : ~ap[i].res.keep) => ~call.result.keep
                  /\ last.key # call.key => call.result.key = last.key
                  /\ (\A i \in 1..Len(ap) : ap[i].res.key = ap[i].arg) =>
                        call.result.key = IncrementKeyName(call.key, call.index)

\* a function that drops hello, joined before one that would keep every key
C22_Witness ==
    /\ call.fn = "JoinResolveKey"
    /\ call.fs = <<"DoesKeyConflict_IncrementKeyName", "ResolveKeyGraylog">>
    /\ call.key = HelloKey /\ call.groups = <<>> /\ call.index = 1
    /\ call.result = [key |-> EmptyKey, keep |-> FALSE]

\* the names a sink gives the builtin fields, and the name its table gives key k
BuiltinsOf(dest) == {dest.builtins[i] : i \in 1..Len(dest.builtins)}
RenamedBy(dest, k) ==
    IF \E i \in 1..Len(dest.replacers) : dest.replacers[i].old = k
    THEN dest.replacers[CHOOSE i \in 1..Len(dest.replacers) : dest.replacers[i].old = k].key
    ELSE k

\* C23: the resolver of a sink table keeps every attribute; in a group it
\* returns the key as given; at the root it never returns a name the sink
\* uses for a builtin field: a key that is such a name after the renames of
\* the table is returned as name#NN with NN = index + 1, for every index.
C23_SinkResolverAvoidsBuiltins ==
    call.fn = "resolveKeys" =>
        LET dest == SinkOf(call.dest)
            name == RenamedBy(dest, call.key)
        IN  /\ call.result.keep
            /\ call.groups # <<>> => call.result.key = call.key
            /\ call.groups = <<>> =>
                  /\ call.result.key \notin BuiltinsOf(dest)
                  /\ name \in BuiltinsOf(dest) =>
                        call.result.key = Candidate(name, call.index + 1)
                  /\ name \notin BuiltinsOf(dest) => call.result.key = name

\* msg at the root for Graylog, index 1: renamed to message, a builtin name
C23_Witness ==
    /\ call.fn = "resolveKeys" /\ call.dest = "sinkGraylog"
    /\ call.groups = <<>> /\ call.key = MessageKey /\ call.index = 1
    /\ call.result = [key |-> Candidate(MessageFieldKey, 2), keep |-> TRUE]

\* C24: the Increment handler with the resolver of a sink, or with the
\* resolvers of the sinks joined, forwards every root attribute of the input
\* under a key of its own, whatever the order of the input: nothing is lost
\* when one attribute has a key the table renames and another has the name it
\* is renamed to.
C24_SinkIncrementKeepsAll ==
    Handled =>
        /\ Len(Out) = Len(Input)
        /\ \A i \in 1..Len(Input) : \E j \in 1..Len(Out) : Out[j].val = Input[i].val

\* C25: with the default resolver and either comparison function, the key the
\* probe of the Increment handler returns compares unequal, under the
\* comparison of the handler, to every key of the map it probed, so the
\* insertion that follows adds an entry and replaces none.
C25_ProbeReturnsFreeKey ==
    (call.fn = "resolveIncrementKey" /\ call.resolveKey = "IncrementIfBuiltinKeyConflict"
        /\ call.result.keep) =>
        /\ \A i \in 1..Len(call.uniq) :
              CompareAs(call.keyCompare, call.uniq[i].k, call.result.key) # 0
        /\ Len(call.after) = Len(call.uniq) + 1

\* the occurrence that holds the key of occurrence j of occ when conflicts are
\* decided by key alone: the last one with that key, or the first one
KeyHolder(occ, root, j, last) ==
    LET same == {i \in 1..Len(occ) :
                    ResolvedKey(root, occ[i].key) = ResolvedKey(root, occ[j].key)}
    IN  CHOOSE w \in same : \A i \in same : IF last THEN i <= w ELSE w <= i

\* every occurrence at the root, whatever its kind and the kinds of the others
\* with its key, leaves in out only what the holder of its key has: the
\* holder itself if it is a scalar, and if it is a group or a namespace, a
\* group with the members of the holder alone
HolderAlone(out, occ, last) ==
    \A j \in 1..Len(occ) :
        LET w == occ[KeyHolder(occ, TRUE, j, last)]
            k == ResolvedKey(TRUE, occ[j].key)
            at == {i \in 1..Len(out) : out[i].key = k}
        IN  /\ Cardinality(at) = 1
            /\ \A i \in at :
                  IF w.kind = "group"
                  THEN /\ out[i].kind = "group"
                       /\ OneWins(out[i].group, w.group, FALSE, last)
                  ELSE out[i] = [w EXCEPT !.key = k]

\* C26: a conflict is decided by the key alone, whatever the kinds of the
\* occurrences. The Ignore handler discards a group or a namespace whose key a
\* scalar or a group already holds, with everything in it; under the
\* Overwrite handler a later scalar replaces an earlier group, and a later
\* group with a member replaces an earlier scalar or group as a whole, its
\* members not merged with those of the earlier group.
C26_ConflictsByKeyAlone ==
    /\ (Handled /\ handlers[inH].kind = "Ignore") =>
            HolderAlone(Out, Occurrences(Input), FALSE)
    /\ (Handled /\ handlers[inH].kind = "Overwrite") =>
            HolderAlone(Out, Occurrences(Input), TRUE)

\* Ignore: a scalar a, then the namespace a with the record's attribute in it
C26_Witness ==
    /\ Handled /\ handlers[inH].kind = "Ignore"
    /\ Len(InGoas) = 2
    /\ InGoas[1].attrs = <<Attr(KeyA, 1)>>
    /\ InGoas[2].group = KeyA
    /\ inRec.attrs = <<Attr(KeyA, 2)>>
    /\ Out = <<Attr(KeyA, 1)>>

RECURSIVE WellFormedMap(_, _)
\* every value of the map uniq, and of every map inside it, is an attribute
\* that is no group, a map with an entry, or, where slices are allowed, a
\* slice of two or more of these
WellFormedMap(uniq, slices) ==
    \A i \in 1..Len(uniq) :
        LET v == uniq[i].v
            single(x) ==
                \/ x.tag = "attr" /\ x.attr.kind # "group"
                \/ x.tag = "tree" /\ Len(x.tree) > 0 /\ WellFormedMap(x.tree, slices)
        IN  \/ single(v)
            \/ /\ slices
               /\ v.tag = "appended"
               /\ Len(v.items) >= 2
               /\ \A j \in 1..Len(v.items) : single(v.items[j])

\* C27: the map Handle builds holds, at every depth, only attributes that are
\* no groups, maps with an entry and, under the Append handler alone, slices
\* of two or more of these; so the reconstruction of the attributes reaches
\* none of its panics and Handle calls the next handler.
C27_MapWellFormed ==
    inH # 0 =>
        /\ WellFormedMap(HandleTree(nodes, handlers[inH], inRec),
                         handlers[inH].kind = "Append")
        /\ ret # "panic"
        /\ sink.calls = 1

\* Append: three occurrences of one key, a group among them
C27_Witness ==
    /\ inH # 0 /\ handlers[inH].kind = "Append" /\ sink.calls = 1
    /\ LET uniq == HandleTree(nodes, handlers[inH], inRec)
       IN  \E i \in 1..Len(uniq) :
              /\ uniq[i].v.tag = "appended"
              /\ Len(uniq[i].v.items) = 3
              /\ \E j \in 1..3 : uniq[i].v.items[j].tag = "tree"

RECURSIVE WithoutEmptyGroups(_)
\* attrs without the groups that hold no occurrence, at every depth
WithoutEmptyGroups(attrs) ==
    IF attrs = <<>> THEN <<>>
    ELSE LET a == Head(attrs)
         IN  (IF a.kind # "group" THEN <<a>>
              ELSE IF Occurrences(a.group) = <<>> THEN <<>>
              ELSE <<Group(a.key, WithoutEmptyGroups(a.group))>>)
             \o WithoutEmptyGroups(Tail(attrs))

RECURSIVE GoasWithoutEmptyGroups(_)
\* the chain without the groups that hold no occurrence and without a
\* namespace that nothing with an occurrence follows
GoasWithoutEmptyGroups(goas) ==
    IF goas = <<>> THEN <<>>
    ELSE LET g == Head(goas)
         IN  IF g.group # EmptyKey
             THEN IF Occurrences(NestGoas(Tail(goas))) = <<>>
                  THEN <<>>
                  ELSE <<g>> \o GoasWithoutEmptyGroups(Tail(goas))
             ELSE <<[g EXCEPT !.attrs = WithoutEmptyGroups(g.attrs)]>>
                  \o GoasWithoutEmptyGroups(Tail(goas))

\* the chain of the latest Handle call followed by the node of its record
AllGoas == InGoas \o <<[group |-> EmptyKey, attrs |-> inRec.attrs, next |-> 0]>>

\* C28: a group or a namespace in which no member survives leaves the map
\* around it as it was, under each of the four handlers: the output is the
\* output for the input without it. It replaces and removes no entry, takes
\* no key that makes a later occurrence get a higher suffix, and adds no
\* element to a slice.
C28_EmptyGroupLeavesMap ==
    Handled =>
        Out = RecordAddAttrs(buildAttrs(
                  createAttrTree(handlers[inH], GoasWithoutEmptyGroups(AllGoas))))

\* Increment: a group of a without a member, then the attribute a, which
\* keeps the key a
C28_Witness ==
    /\ Handled /\ handlers[inH].kind = "Increment"
    /\ GoasWithoutEmptyGroups(AllGoas) # AllGoas
    /\ Len(InGoas) = 1
    /\ InGoas[1].attrs = <<Group(KeyA, <<Attr(EmptyKey, 0)>>)>>
    /\ inRec.attrs = <<Attr(KeyA, 1)>>
    /\ Out = <<Attr(KeyA, 1)>>

\* C29: the loop of the probe of the Increment handler ends, for every map
\* and every resolver, one that returns the same key at every index too:
\* each iteration takes one key from the enumerator, so the loop runs at most
\* once for each key from the position of the seek on and once more for the
\* end of the map.
C29_ProbeTerminates ==
    /\ [](call.fn = "resolveIncrementKeyClosure" =>
            /\ call.iterations <= (Len(call.uniq) + 1 - call.seek) + 1
            /\ call.pos <= Len(call.uniq) + 1
            /\ (~call.returned) => call.pos = call.seek + call.iterations)
    /\ (call.fn = "resolveIncrementKeyClosure") ~>
            (call.fn = "resolveIncrementKeyClosure" /\ call.returned)

\* ResolveKeyGraylog returns a for a at every index: with a in the map the
\* loop asks for index 1, gets a again, and returns it at the end of the map
C29_Witness ==
    /\ call.fn = "resolveIncrementKeyClosure" /\ call.returned
    /\ call.resolveKey = "ResolveKeyGraylog" /\ call.groups = <<>>
    /\ call.key = KeyA /\ call.index = 1 /\ call.result.key = KeyA
    /\ Len(call.uniq) = 2 /\ call.seek = 2 /\ call.iterations = 2

\* C30: for every key and every index from 0 on, IncrementKeyName(key, index)
\* is below IncrementKeyName(key, index + 1) in byte order, from index 9 to
\* 10 and from 99 to 100 too, so each candidate of the probe lies ahead of
\* the one before it in the map.
C30_CandidatesAscend ==
    call.fn = "IncrementKeyName" => StrLess(call.result, call.next)

====
